---- MODULE Spec2Model ----
(***************************************************************************)
(* FastSM: the platform adapters' pagination-cursor bookkeeping, the       *)
(* per-account user cache, the adapters' error policy and the live-update  *)
(* merger, as state machines translated from the Python sources.           *)
(*                                                                         *)
(* One module, several specifications: each subsystem has its own Init and *)
(* Next and leaves the variables of the other subsystems untouched.        *)
(***************************************************************************)
EXTENDS Integers, Sequences, FiniteSets, TLC

VARIABLES
    cursors,        \* BlueskyAccount._cursors: timeline key -> cursor
    calls,          \* the timeline calls of the worker threads, one per caller
    errors,         \* operation labels handed to app.handle_error so far
    open,           \* the timeline keys the application has open in this run
    threads,        \* the worker threads that issue timeline calls in this run
    cursorArgs,     \* the explicit cursor arguments callers pass in this run
    returned,       \* history: per key, the last cursor a response carried
    lastDone,       \* history: the caller whose call completed most recently
    users,          \* UserCache.users, most recently seen first
    unknown_users,  \* UserCache.unknown_users: ids to look up later
    loader,         \* the background load thread: pending (with the file) or done
    lastOp,         \* history: the latest UserCache operation and its result
    timelines,      \* account.timelines: the open timeline buffers, in order
    delivered,      \* history: the mention notifications processed so far
    deleted,        \* history: the statuses the backend announced as deleted
    event,          \* the connection's latest event and what was spoken for it
    invoked,        \* the latest adapter call: method, backend failure, outcome
    given,          \* <<x>>: the backend data handed to a conversion, <<>> if none
    converted,      \* <<y>>: what the conversion returned, <<>> before it ran
    request,        \* <<r>>: the adapter call the latest user action made
    prefs           \* the counters app.prefs.boosts_sent / favourites_sent

cursorVars ==
    <<cursors, calls, errors, open, threads, cursorArgs, returned, lastDone>>
cacheVars == <<users, unknown_users, loader, lastOp>>
streamVars == <<timelines, delivered, deleted, event>>

convertVars == <<given, converted>>

guiVars == <<request, prefs>>

vars == <<cursorVars, cacheVars, streamVars, invoked, convertVars, guiVars>>

----------------------------------------------------------------------------
(* Bounds *)

\* cursor tokens the backend hands out: <<1>> .. <<MaxCursor>>
MaxCursor == 2
\* user ids / feed uris / search queries a keyed timeline can be opened for
NumArgs == 2
\* UserCache.MAX_CACHE_SIZE, scaled down (500 in src/models/user.py:54)
MAX_CACHE_SIZE == 3
\* statuses the push stream can carry: ids 1..MaxStatus
MaxStatus == 2
\* mention notifications of one backend: ids 1..MaxNotification
MaxNotification == 3
\* posts the backend can put in a feed: uris 1..NumPosts
NumPosts == 2
\* entries of one feed page
MaxFeed == 2
\* the most boosts / favourites counted in app.prefs
MaxSent == 2
\* the most ancestors and the most replies of a thread view
MaxThread == 2

----------------------------------------------------------------------------
(* The per-account user cache: src/models/user.py *)

UserIds == 1..(MAX_CACHE_SIZE + 1)

\* characters of handles; a handle is a sequence of them
Lower(ch) == CASE ch = "A" -> "a" [] ch = "B" -> "b" [] OTHER -> ch

\* str.lower
LowerStr(s) == [i \in 1..Len(s) |-> Lower(s[i])]

\* str.lstrip('@'): every leading '@' is dropped
RECURSIVE LStripAt(_)
LStripAt(s) ==
    IF s # <<>> /\ Head(s) = "@" THEN LStripAt(Tail(s)) ELSE s

\* str.split('@')[0]: the text before the first '@'
RECURSIVE LocalPart(_)
LocalPart(s) ==
    IF s = <<>> \/ Head(s) = "@" THEN <<>>
    ELSE <<Head(s)>> \o LocalPart(Tail(s))

\* the fully qualified handle of the account with a given id
AcctOf(i) ==
    CASE i = 1 -> <<"a">>
      [] i = 2 -> <<"A", "@", "x">>
      [] i = 3 -> <<"b", "@", "x">>
      [] i = 4 -> <<"a", "@", "y">>
      [] OTHER -> <<"B", "@", "y">>

\* a UniversalUser snapshot: ver tells two snapshots of one account apart
User(i, v) == [id |-> i, acct |-> AcctOf(i), ver |-> v]

\* Python's None where a user is expected
NoUser == [id |-> 0, acct |-> <<>>, ver |-> 0]

\* the snapshots the backend hands out: one per account, two of account 1
Users == {User(i, 1) : i \in UserIds} \cup {User(1, 2)}

\* a status as add_users_from_status reads it: its account and the accounts
\* of its reblog and its quote (NoUser where the status or account is None)
Status(a, r, q) == [account |-> a, reblog |-> r, quote |-> q]
NoStatus == Status(NoUser, NoUser, NoUser)
Statuses ==
    {Status(a, NoUser, NoUser) : a \in Users \cup {NoUser}}
    \cup {Status(a, r, q) : a \in {NoUser, User(3, 1)},
                            r \in {NoUser, User(2, 1)},
                            q \in {NoUser, User(1, 2)}}

\* a notification as add_users_from_notification reads it
Notifications ==
    {[account |-> a, status |-> st] :
        a \in {NoUser, User(MAX_CACHE_SIZE + 1, 1)},
        st \in {NoStatus, Status(User(3, 1), User(2, 1), User(1, 2))}}

\* the cache files the load can find: written by save() from a cache
\* (most recent first, one entry per id), possibly under a larger cap
CacheFile(n) == [readable |-> TRUE, content |-> [i \in 1..n |-> User(i, 1)]]
CacheFiles == {CacheFile(n) : n \in {1, MAX_CACHE_SIZE + 1}}
\* no file, or one that pickle.load rejects
Unreadable == [readable |-> FALSE, content |-> <<>>]

\* the ids lookup_by_id is asked for and the names lookup_by_name is asked for
LookupIds == {1, 2}
Names == {<<"@", "A">>, <<"@", "@", "b">>, <<"a", "@", "X">>, <<"c">>}

\* what a caller passes as use_api_callback: nothing, or a callback, told
\* by the user it answers with (NoUser for None)
NoCallback == [given |-> FALSE, answer |-> NoUser]
Callbacks ==
    {NoCallback} \cup {[given |-> TRUE, answer |-> u] :
                         u \in {NoUser, User(1, 2), User(2, 1)}}

HasId(us, id) == \E i \in 1..Len(us) : us[i].id = id

\* mutant: only an entry equal to the user in every field is removed first
AddUser_FilterEqual(us, u) ==
    IF u = NoUser THEN us
    ELSE LET ins == <<u>> \o SelectSeq(us, LAMBDA x : x # u)
         IN IF Len(ins) > MAX_CACHE_SIZE
            THEN SubSeq(ins, 1, MAX_CACHE_SIZE) ELSE ins

\* mutant: the entry with the same id is not removed first
AddUser_NoFilter(us, u) ==
    IF u = NoUser THEN us
    ELSE LET ins == <<u>> \o us
         IN IF Len(ins) > MAX_CACHE_SIZE
            THEN SubSeq(ins, 1, MAX_CACHE_SIZE) ELSE ins

\* mutant: the cache is not trimmed after the insertion
AddUser_NoTrim(us, u) ==
    IF u = NoUser THEN us
    ELSE <<u>> \o SelectSeq(us, LAMBDA x : x.id # u.id)

\* mutant: the trim drops the front (newest) entry instead of the tail
AddUser_TrimFront(us, u) ==
    IF u = NoUser THEN us
    ELSE LET ins == <<u>> \o SelectSeq(us, LAMBDA x : x.id # u.id)
         IN IF Len(ins) > MAX_CACHE_SIZE
            THEN SubSeq(ins, 2, MAX_CACHE_SIZE + 1) ELSE ins

\* UserCache.add_user
AddUser(us, u) ==
    IF u = NoUser THEN us
    ELSE LET ins == <<u>> \o SelectSeq(us, LAMBDA x : x.id # u.id)
         IN IF Len(ins) > MAX_CACHE_SIZE
            THEN SubSeq(ins, 1, MAX_CACHE_SIZE) ELSE ins

\* (variant: only the status's own account is cached)
AddUsersFromStatus_AccountOnly(us, st) ==
    IF st.account # NoUser THEN AddUser(us, st.account) ELSE us

\* UserCache.add_users_from_status
AddUsersFromStatus(us, st) ==
    LET s1 == IF st.account # NoUser THEN AddUser(us, st.account) ELSE us
        s2 == IF st.reblog # NoUser THEN AddUser(s1, st.reblog) ELSE s1
    IN IF st.quote # NoUser THEN AddUser(s2, st.quote) ELSE s2

\* UserCache.add_users_from_notification
AddUsersFromNotification(us, n) ==
    LET s1 == IF n.account # NoUser THEN AddUser(us, n.account) ELSE us
    IN IF n.status # NoStatus THEN AddUsersFromStatus(s1, n.status) ELSE s1

\* mutant: the loaded list is installed untrimmed
Loaded_NoTrim(file) == IF ~file.readable THEN <<>> ELSE file.content

\* UserCache._load_async: the list self.users is set to
Loaded(file) ==
    IF ~file.readable THEN <<>>
    ELSE IF Len(file.content) > MAX_CACHE_SIZE
         THEN SubSeq(file.content, 1, MAX_CACHE_SIZE) ELSE file.content

\* UserCache.lookup_by_id: the user returned (NoUser for None)
RECURSIVE FindById(_, _)
FindById(us, id) ==
    IF us = <<>> THEN NoUser
    ELSE IF Head(us).id = id THEN Head(us) ELSE FindById(Tail(us), id)

\* mutant: a missed id is appended without the membership test
UnknownAfterLookup_AlwaysAppend(us, unk, id) ==
    IF FindById(us, id) # NoUser THEN unk ELSE Append(unk, id)

\* UserCache.lookup_by_id: the unknown list afterwards
UnknownAfterLookup(us, unk, id) ==
    IF FindById(us, id) # NoUser THEN unk
    ELSE IF \E i \in 1..Len(unk) : unk[i] = id THEN unk
         ELSE Append(unk, id)

\* mutant: only the full handle is compared
RECURSIVE FindByName_AcctOnly(_, _)
FindByName_AcctOnly(us, name) ==
    IF us = <<>> THEN NoUser
    ELSE IF LowerStr(Head(us).acct) = name
         THEN Head(us)
         ELSE FindByName_AcctOnly(Tail(us), name)

\* UserCache.lookup_by_name: the scan of the cache with the normalized name
RECURSIVE FindByName(_, _)
FindByName(us, name) ==
    IF us = <<>> THEN NoUser
    ELSE IF \/ LowerStr(Head(us).acct) = name
            \/ LowerStr(LocalPart(Head(us).acct)) = name
         THEN Head(us)
         ELSE FindByName(Tail(us), name)

\* the name lookup_by_name searches for
Normalize(name) == LowerStr(LStripAt(name))

NoOp == [op |-> "none", user |-> NoUser, hit |-> FALSE, full |-> FALSE,
         result |-> NoUser]

EmptyCache ==
    /\ users = <<>>
    /\ unknown_users = <<>>
    /\ loader = [pc |-> "done", file |-> Unreadable]
    /\ lastOp = NoOp

\* the background thread runs _load_async
LoadAsync ==
    /\ loader.pc = "pending"
    /\ users' = Loaded(loader.file)
    /\ loader' = [pc |-> "done", file |-> Unreadable]
    /\ lastOp' = [NoOp EXCEPT !.op = "load",
                               !.full = Len(loader.file.content) > MAX_CACHE_SIZE]
    /\ UNCHANGED unknown_users
    /\ UNCHANGED <<cursorVars, streamVars, invoked, convertVars, guiVars>>

AddUserOp(u) ==
    /\ users' = AddUser(users, u)
    /\ lastOp' = [op |-> "add_user", user |-> u, hit |-> HasId(users, u.id),
                  full |-> Len(users) = MAX_CACHE_SIZE, result |-> NoUser]
    /\ UNCHANGED <<unknown_users, loader>>
    /\ UNCHANGED <<cursorVars, streamVars, invoked, convertVars, guiVars>>

\* add_user while the load thread installs its list: the thread's assignment
\* lands between add_user's filtering assignment and its insert
AddUserRacingLoad(u) ==
    /\ loader.pc = "pending"
    /\ u # NoUser
    /\ LET ins == <<u>> \o Loaded(loader.file)
       IN users' = IF Len(ins) > MAX_CACHE_SIZE
                   THEN SubSeq(ins, 1, MAX_CACHE_SIZE) ELSE ins
    /\ loader' = [pc |-> "done", file |-> Unreadable]
    /\ lastOp' = [NoOp EXCEPT !.op = "add_user during load", !.user = u]
    /\ UNCHANGED unknown_users
    /\ UNCHANGED <<cursorVars, streamVars, invoked, convertVars, guiVars>>

AddUsersFromStatusOp(st) ==
    /\ users' = AddUsersFromStatus(users, st)
    /\ lastOp' = [NoOp EXCEPT !.op = "add_users_from_status"]
    /\ UNCHANGED <<unknown_users, loader>>
    /\ UNCHANGED <<cursorVars, streamVars, invoked, convertVars, guiVars>>

AddUsersFromNotificationOp(n) ==
    /\ users' = AddUsersFromNotification(users, n)
    /\ lastOp' = [NoOp EXCEPT !.op = "add_users_from_notification"]
    /\ UNCHANGED <<unknown_users, loader>>
    /\ UNCHANGED <<cursorVars, streamVars, invoked, convertVars, guiVars>>

LookupById(id) ==
    /\ unknown_users' = UnknownAfterLookup(users, unknown_users, id)
    /\ lastOp' = [op |-> "lookup_by_id", user |-> NoUser,
                  hit |-> HasId(users, id), full |-> FALSE,
                  result |-> FindById(users, id)]
    /\ UNCHANGED <<users, loader>>
    /\ UNCHANGED <<cursorVars, streamVars, invoked, convertVars, guiVars>>

\* mutant: the callback is consulted before the cache is scanned
CallsBack_Always(found, callback) == callback.given

\* "if use_api_callback:" after the scan has returned nothing
CallsBack(found, callback) == found = NoUser /\ callback.given

\* lookup_by_name(name, use_api_callback)
LookupByName(name, callback) ==
    LET found == FindByName(users, Normalize(name))
        calls_back == CallsBack(found, callback)
        got == IF calls_back THEN callback.answer ELSE NoUser
    IN /\ users' = IF got # NoUser THEN AddUser(users, got) ELSE users
       /\ lastOp' = [op |-> "lookup_by_name", user |-> got,
                     hit |-> found # NoUser, full |-> calls_back,
                     result |-> IF got # NoUser THEN got ELSE found]
       /\ UNCHANGED <<unknown_users, loader>>
       /\ UNCHANGED <<cursorVars, streamVars, invoked, convertVars, guiVars>>

Clear ==
    /\ users' = <<>>
    /\ unknown_users' = <<>>
    /\ lastOp' = [NoOp EXCEPT !.op = "clear"]
    /\ UNCHANGED loader
    /\ UNCHANGED <<cursorVars, streamVars, invoked, convertVars, guiVars>>

\* the pages a timeline call converts: one or two statuses
Pages == {<<st>> : st \in Statuses} \cup (Statuses \X Statuses)

\* a timeline call has its page converted
ReceivePage ==
    /\ given = <<>>
    /\ \E page \in Pages : given' = page
    /\ converted' = <<>>
    /\ lastOp' = NoOp
    /\ UNCHANGED <<users, unknown_users, loader>>
    /\ UNCHANGED <<cursorVars, streamVars, invoked, guiVars>>

\* "for status in result: self.user_cache.add_users_from_status(status)",
\* one turn of the loop; the call returns when the page is through
CachePageStatus ==
    /\ Len(converted) < Len(given)
    /\ LET status == given[Len(converted) + 1]
       IN /\ users' = AddUsersFromStatus(users, status)
          /\ converted' = Append(converted, status)
    /\ lastOp' = [NoOp EXCEPT !.op = "add_users_from_status"]
    /\ UNCHANGED <<unknown_users, loader, given>>
    /\ UNCHANGED <<cursorVars, streamVars, invoked, guiVars>>

NextPage == ReceivePage \/ CachePageStatus

NextCache ==
    \/ LoadAsync
    \/ \E u \in Users \cup {NoUser} : AddUserOp(u)
    \/ \E st \in Statuses : AddUsersFromStatusOp(st)
    \/ \E n \in Notifications : AddUsersFromNotificationOp(n)
    \/ \E id \in LookupIds : LookupById(id)
    \/ \E name \in Names, callback \in Callbacks :
          LookupByName(name, callback)
    \/ Clear

----------------------------------------------------------------------------
(* The adapters' error policy: src/platforms/*/account.py, base.py *)

\* no adapter call made yet
NotInvoked ==
    [platform |-> "", method |-> "", failure |-> "", result |-> "",
     contacted |-> FALSE, reported |-> FALSE]

\* the capability interface (PlatformAccount) plus lookup_user_by_name
ContractMethods ==
    {"get_home_timeline", "get_mentions", "get_notifications",
     "get_conversations", "get_favourites", "get_user_statuses",
     "get_list_timeline", "search_statuses", "get_status",
     "get_status_context", "post", "quote", "boost", "unboost", "favourite",
     "unfavourite", "delete_status", "get_user", "search_users",
     "lookup_user_by_name", "follow", "unfollow", "block", "unblock", "mute",
     "unmute", "get_followers", "get_following", "get_lists",
     "get_list_members", "add_to_list", "remove_from_list"}

MastodonMethods ==
    ContractMethods \cup {"get_local_timeline", "get_public_timeline"}

BlueskyMethods ==
    ContractMethods \cup {"get_feed_timeline", "get_saved_feeds",
                          "search_feeds"}

\* the no-result value of a method's return type
NoResultOf(m) ==
    CASE m \in {"get_status", "post", "quote", "get_user",
                "lookup_user_by_name"} -> "None"
      [] m = "get_status_context" -> "{'ancestors': [], 'descendants': []}"
      [] m \in {"boost", "unboost", "favourite", "unfavourite",
                "delete_status", "follow", "unfollow", "block", "unblock",
                "mute", "unmute", "add_to_list", "remove_from_list"} -> "False"
      [] OTHER -> "[]"

\* the exceptions the backend clients raise: the library's error class
\* (transport and protocol failures) or any other exception
MastodonFailures == {"MastodonError", "Exception"}
BlueskyFailures == {"AtProtocolError", "Exception"}

\* the Mastodon methods whose backend request is under no try at all; in
\* quote it is the fallback status_post that is outside the try
MastodonUnguarded ==
    {"get_home_timeline", "get_mentions", "get_notifications",
     "get_conversations", "get_favourites", "get_user_statuses",
     "get_list_timeline", "get_local_timeline", "get_public_timeline",
     "search_statuses", "post", "quote"}

\* what a Mastodon method's except clause catches ("except MastodonError")
MastodonCatches(m) ==
    IF m \in MastodonUnguarded THEN {} ELSE {"MastodonError"}

\* the list and direct-message methods, which Bluesky does not support
\* (supports_lists = False, supports_direct_messages = False)
UnsupportedOnBluesky ==
    {"get_conversations", "get_list_timeline", "get_lists",
     "get_list_members", "add_to_list", "remove_from_list"}

\* mutant: get_list_timeline asks the backend like the other timeline methods
BlueskyLocal_ListTimelineRemote ==
    {"get_conversations", "unblock", "get_lists", "get_list_members",
     "add_to_list", "remove_from_list"}

\* the Bluesky methods that never contact the backend
BlueskyLocal ==
    {"get_conversations", "get_list_timeline", "unblock", "get_lists",
     "get_list_members", "add_to_list", "remove_from_list"}

\* what a Bluesky method's except clauses keep from the caller: (AtProtocolError,
\* InvokeTimeoutError) everywhere, and "except Exception" as well in
\* get_home_timeline; the "except Exception" handlers of get_saved_feeds call
\* search_feeds, which fails the same way and catches only the library error
BlueskyCatches(m) ==
    IF m = "get_home_timeline"
    THEN {"AtProtocolError", "Exception"}
    ELSE {"AtProtocolError"}

\* a Mastodon adapter method runs while every backend request raises failure
\* ("" when the backend answers)
MastodonCall(m, failure) ==
    /\ invoked' =
         [platform |-> "mastodon", method |-> m, failure |-> failure,
          result |-> IF failure = "" THEN "value"
                     ELSE IF failure \in MastodonCatches(m)
                          THEN NoResultOf(m) ELSE "raised",
          contacted |-> TRUE,
          reported |-> FALSE]
    /\ UNCHANGED <<cursorVars, cacheVars, streamVars, convertVars, guiVars>>

\* a Bluesky adapter method, likewise; a caught failure goes to
\* app.handle_error before the no-result value is returned; a method that
\* makes no request meets no failure
BlueskyCall(m, failure) ==
    /\ invoked' =
         [platform |-> "bluesky", method |-> m,
          failure |-> IF m \in BlueskyLocal THEN "" ELSE failure,
          contacted |-> m \notin BlueskyLocal,
          result |-> IF m \in BlueskyLocal THEN NoResultOf(m)
                     ELSE IF failure = "" THEN "value"
                     ELSE IF failure \in BlueskyCatches(m)
                          THEN NoResultOf(m) ELSE "raised",
          reported |-> /\ m \notin BlueskyLocal
                       /\ failure # ""
                       /\ failure \in BlueskyCatches(m)]
    /\ UNCHANGED <<cursorVars, cacheVars, streamVars, convertVars, guiVars>>

NextAdapter ==
    \/ \E m \in MastodonMethods, f \in MastodonFailures \cup {""} :
          MastodonCall(m, f)
    \/ \E m \in BlueskyMethods, f \in BlueskyFailures \cup {""} :
          BlueskyCall(m, f)

----------------------------------------------------------------------------
(* Feed conversion: src/platforms/bluesky/models.py, account.py *)

\* nothing handed to a conversion
NoConversion ==
    /\ given = <<>>
    /\ converted = <<>>

\* profiles as the backend sends them
Profile(n) == [did |-> <<"did", n>>, handle |-> IF n = 1 THEN "alice.test" ELSE "bob"]

\* "handle.split('.')[0] if '.' in handle else handle"
UsernameOf(handle) == IF handle = "alice.test" THEN "alice" ELSE handle

\* bluesky_profile_to_universal; <<>> for None
ProfileToUniversal(profile) ==
    IF profile = <<>> THEN <<>>
    ELSE <<[id |-> profile[1].did, acct |-> profile[1].handle,
            username |-> UsernameOf(profile[1].handle),
            display_name |-> profile[1].handle]>>

\* the declared type of an embed, by the name that tells the kinds apart
\* ('app.bsky.embed.<name>#view')
EmbedTypes == {"images", "video", "record", "recordWithMedia"}

\* str.lower() of a type name
LowerType(t) == IF t = "recordWithMedia" THEN "recordwithmedia" ELSE t

\* "needle in text" for the needles the conversion looks for
Occurs(needle, text) ==
    CASE needle = "record" ->
            text \in {"record", "recordWithMedia", "recordwithmedia"}
      [] OTHER -> text = needle

\* an embed: its type, its images, and the inner media embed of a
\* record-with-media composite (<<>> when it has none)
Embed(type, images, media) == [type |-> type, images |-> images, media |-> media]

\* the media embeds: images (none, one, two) and video
MediaEmbeds ==
    {Embed("images", is, <<>>) : is \in {<<>>, <<"i1">>, <<"i1", "i2">>}}
    \cup {Embed("video", <<>>, <<>>)}

\* what a post's embed field can hold; <<>> for no embed
Embeds ==
    {<<>>} \cup {<<e>> : e \in MediaEmbeds}
    \cup {<<Embed("record", <<>>, <<>>)>>}
    \cup {<<Embed("recordWithMedia", <<>>, m)>> :
             m \in {<<>>} \cup {<<e>> : e \in MediaEmbeds}}

\* bluesky_media_to_universal, and the video item
ImageMedia(image) == [type |-> "image", url |-> image]
VideoMedia == [type |-> "video", url |-> "playlist"]

\* extract_media_from_embed
RECURSIVE ExtractMedia(_)
ExtractMedia(embed) ==
    IF embed = <<>> THEN <<>>
    ELSE LET embed_type == LowerType(embed[1].type)
         IN IF Occurs("images", embed_type)
            THEN [i \in 1..Len(embed[1].images) |->
                     ImageMedia(embed[1].images[i])]
            ELSE IF Occurs("video", embed_type)
            THEN <<VideoMedia>>
            ELSE IF Occurs("recordWithMedia", embed_type)
            THEN IF embed[1].media # <<>>
                 THEN ExtractMedia(embed[1].media) ELSE <<>>
            ELSE <<>>

\* a post payload. uri 0 and author <<>> stand for absent fields, a count is
\* <<n>> or <<>>; text, facets and self_labels are those of the record (empty
\* when the post has no record); labels are the server-attached ones
Post(uri, author, text, count, embed, labels, self_labels) ==
    [uri |-> uri, cid |-> <<"cid", uri>>, author |-> author, text |-> text,
     like_count |-> count, repost_count |-> count, reply_count |-> count,
     embed |-> embed,
     facets |-> IF text = "" THEN <<>> ELSE <<"did">>,
     labels |-> labels, self_labels |-> self_labels]

\* a PostView of a feed: post n is written by profile n; odd posts carry
\* text, counts, an image and a mention, even posts are bare
PostView(n) ==
    Post(n, <<Profile(n)>>, IF n % 2 = 1 THEN "text" ELSE "", <<n % 2>>,
         IF n % 2 = 1 THEN <<Embed("images", <<"image">>, <<>>)>> ELSE <<>>,
         <<>>, <<>>)

PostViews == {PostView(n) : n \in 1..NumPosts}

\* the reason of a feed item: <<>> for none, else its type and reason.by
Reasons ==
    {<<>>,
     <<[type |-> "reasonRepost", by |-> <<Profile(NumPosts + 1)>>]>>,
     <<[type |-> "reasonRepost", by |-> <<>>]>>,
     <<[type |-> "reasonPin", by |-> <<>>]>>}

\* FeedViewPost {post, reason}; the last is a wrapper that lost its post
FeedItems ==
    {[post |-> <<p>>, reason |-> r] : p \in PostViews, r \in Reasons}
    \cup {[post |-> <<>>,
           reason |-> <<[type |-> "reasonRepost",
                         by |-> <<Profile(NumPosts + 1)>>]>>]}

\* the statuses' ids: the uri, uri + ':repost' for a repost wrapper, '' when
\* the item has no uri
StatusId(uri, suffix) == [uri |-> uri, suffix |-> suffix]

\* "like_count or 0"
CountOf(count) == IF count = <<>> THEN 0 ELSE count[1]

\* the record's self-label values that are not empty
RECURSIVE SelfLabelValues(_)
SelfLabelValues(self_labels) ==
    IF self_labels = <<>> THEN <<>>
    ELSE (IF Head(self_labels) # "" THEN <<Head(self_labels)>> ELSE <<>>)
         \o SelfLabelValues(Tail(self_labels))

\* "labels = get_attr(post, 'labels', []) or []" followed by labels.append
\* for each self-label: the local list at the end of the conversion
CombinedLabels(post) == post.labels \o SelfLabelValues(post.self_labels)

\* the payload after the conversion: a non-empty post.labels is the very
\* list the self-labels were appended to; an empty or absent one was
\* replaced by a fresh list and stays as it was
PostAfterConversion(post) ==
    IF post.labels # <<>>
    THEN [post EXCEPT !.labels = CombinedLabels(post)]
    ELSE post

\* the tail of bluesky_post_to_universal: a PostView (<<>> when the item
\* carries none) becomes a status with reblog = None; the combined labels
\* are not among the arguments of UniversalStatus(...)
PostViewToUniversal(post) ==
    IF post = <<>>
    THEN [id |-> StatusId(0, ""), account |-> <<>>, content |-> "",
          text |-> "", favourites_count |-> 0, boosts_count |-> 0,
          replies_count |-> 0, reblog |-> <<>>, quote |-> <<>>,
          media_attachments |-> <<>>, mentions |-> <<>>,
          spoiler_text |-> <<>>, platform_data |-> <<>>]
    ELSE [id |-> StatusId(post[1].uri, ""),
          account |-> ProfileToUniversal(post[1].author),
          content |-> post[1].text, text |-> post[1].text,
          favourites_count |-> CountOf(post[1].like_count),
          boosts_count |-> CountOf(post[1].repost_count),
          replies_count |-> CountOf(post[1].reply_count),
          reblog |-> <<>>, quote |-> <<>>,
          media_attachments |-> ExtractMedia(post[1].embed),
          mentions |-> post[1].facets,
          spoiler_text |-> <<>>,
          platform_data |-> <<PostAfterConversion(post[1])>>]

\* the user of a repost wrapper, from reason.by
ReposterUser(by) ==
    IF by # <<>>
    THEN [id |-> by[1].did, acct |-> by[1].handle,
          username |-> IF by[1].handle = "alice.test" THEN "alice"
                       ELSE "no_user",
          display_name |-> by[1].handle]
    ELSE [id |-> <<"unknown">>, acct |-> "unknown", username |-> "unknown",
          display_name |-> "[NO_BY]"]

\* mutant: a wrapper without reason.by is converted as a plain post
IsRepost_NeedsBy(item) ==
    /\ item.reason # <<>>
    /\ item.reason[1].type = "reasonRepost"
    /\ item.reason[1].by # <<>>
    /\ item.post # <<>>

\* "if reason is not None: ... if is_repost and inner_post"
IsRepost(item) ==
    /\ item.reason # <<>>
    /\ item.reason[1].type = "reasonRepost"
    /\ item.post # <<>>

\* mutant: the wrapper is attributed to the author of the original post
RepostAccount_Original(item) == ProfileToUniversal(item.post[1].author)

\* the account of the synthesized repost status
RepostAccount(item) == <<ReposterUser(item.reason[1].by)>>

\* bluesky_post_to_universal on a feed item
PostToUniversal(item) ==
    IF IsRepost(item)
    THEN [id |-> StatusId(item.post[1].uri, ":repost"),
          account |-> RepostAccount(item),
          content |-> "", text |-> "", favourites_count |-> 0,
          boosts_count |-> 0, replies_count |-> 0,
          reblog |-> <<PostViewToUniversal(item.post)>>, quote |-> <<>>,
          media_attachments |-> <<>>, mentions |-> <<>>,
          spoiler_text |-> <<>>, platform_data |-> <<item>>]
    ELSE PostViewToUniversal(item.post)

\* _convert_feed_posts: every item of the page, in order (a None item, which
\* converts to None, is the only one skipped)
RECURSIVE ConvertFeedPosts(_)
ConvertFeedPosts(feed) ==
    IF feed = <<>> THEN <<>>
    ELSE IF Head(feed) = <<>>
         THEN ConvertFeedPosts(Tail(feed))
         ELSE <<PostToUniversal(Head(feed)[1])>> \o ConvertFeedPosts(Tail(feed))

\* feed pages: up to MaxFeed entries, each a feed item or None
FeedEntries == {<<i>> : i \in FeedItems} \cup {<<>>}

FeedPages == UNION {[1..n -> FeedEntries] : n \in 0..MaxFeed}

\* the backend answers a timeline request with a feed page
ReceiveFeed ==
    /\ given = <<>>
    /\ \E feed \in FeedPages : given' = <<feed>>
    /\ converted' = <<>>
    /\ UNCHANGED <<cursorVars, cacheVars, streamVars, invoked, guiVars>>

\* the adapter converts the page
ConvertFeed ==
    /\ given # <<>>
    /\ converted = <<>>
    /\ converted' = <<ConvertFeedPosts(given[1])>>
    /\ UNCHANGED <<cursorVars, cacheVars, streamVars, invoked, given, guiVars>>

NextConvert == ReceiveFeed \/ ConvertFeed

\* post payloads, whole and partial: with or without uri, author, handle,
\* record text, counts, embed, server labels and self-labels
PostPayloads ==
    {Post(uri, author, text, count, embed, labels, self_labels) :
        uri \in {0, 1},
        author \in {<<>>, <<Profile(1)>>, <<[did |-> <<"did", 2>>, handle |-> ""]>>},
        text \in {"", "text"},
        count \in {<<>>, <<1>>},
        embed \in Embeds,
        labels \in {<<>>, <<"spam">>},
        self_labels \in {<<>>, <<"porn">>, <<"", "porn">>}}

\* the backend hands over a post
ReceivePost ==
    /\ given = <<>>
    /\ \E post \in PostPayloads : given' = <<post>>
    /\ converted' = <<>>
    /\ UNCHANGED <<cursorVars, cacheVars, streamVars, invoked, guiVars>>

\* bluesky_post_to_universal(post), a first and a second time: converted
\* collects the results, given is the payload as the call left it
ConvertPost ==
    /\ given # <<>>
    /\ Len(converted) < 2
    /\ converted' = Append(converted, PostViewToUniversal(given))
    /\ given' = <<PostAfterConversion(given[1])>>
    /\ UNCHANGED <<cursorVars, cacheVars, streamVars, invoked, guiVars>>

NextPost == ReceivePost \/ ConvertPost

----------------------------------------------------------------------------
(* Thread walks: src/platforms/bluesky/account.py *)

\* a node of the parent chain: <<PostView>>, or <<>> for a post the backend
\* could not resolve (not found, blocked); such a node has no parent of its
\* own, so it can only end a chain
ResolvedNodes == {<<p>> : p \in PostViews}

\* parent chains, the immediate parent first
ParentChains ==
    LET whole == UNION {[1..n -> ResolvedNodes] : n \in 0..MaxThread}
    IN whole \cup {Append(c, <<>>) : c \in {w \in whole : Len(w) < MaxThread}}

\* a reply node: its post, if resolved, and its own replies
ReplyNode(post, replies) == [post |-> post, replies |-> replies]

ReplyNodes ==
    {ReplyNode(<<p>>, <<>>) : p \in PostViews}
    \cup {ReplyNode(<<>>, <<>>),
          ReplyNode(<<PostView(1)>>, <<ReplyNode(<<PostView(2)>>, <<>>)>>)}

\* what get_post_thread answers: thread.post, the chain of thread.parent and
\* thread.replies
ThreadViews ==
    {[post |-> p, parents |-> c, replies |-> rs] :
        p \in {<<PostView(NumPosts)>>, <<>>},
        c \in ParentChains,
        rs \in UNION {[1..n -> ReplyNodes] : n \in 0..MaxThread}}

\* mutant: each ancestor found is appended
RECURSIVE WalkAncestors_Append(_, _)
WalkAncestors_Append(chain, ancestors) ==
    IF chain = <<>> THEN ancestors
    ELSE WalkAncestors_Append(Tail(chain),
            IF Head(chain) # <<>>
            THEN ancestors \o <<PostViewToUniversal(Head(chain))>>
            ELSE ancestors)

\* "while parent: ... ancestors.insert(0, status); parent = parent.parent"
RECURSIVE WalkAncestors(_, _)
WalkAncestors(chain, ancestors) ==
    IF chain = <<>> THEN ancestors
    ELSE WalkAncestors(Tail(chain),
            IF Head(chain) # <<>>
            THEN <<PostViewToUniversal(Head(chain))>> \o ancestors
            ELSE ancestors)

\* "for reply in replies: ... descendants.append(status)"
RECURSIVE WalkReplies(_)
WalkReplies(replies) ==
    IF replies = <<>> THEN <<>>
    ELSE (IF Head(replies).post # <<>>
          THEN <<PostViewToUniversal(Head(replies).post)>> ELSE <<>>)
         \o WalkReplies(Tail(replies))

\* BlueskyAccount.get_status_context on the thread the backend returned
StatusContext(thread) ==
    [ancestors |-> WalkAncestors(thread.parents, <<>>),
     descendants |-> WalkReplies(thread.replies)]

\* ComAtprotoRepoStrongRef.Main(uri, cid) of a post
StrongRef(post) == [uri |-> post.uri, cid |-> post.cid]

\* mutant: the walk stops at the first ancestor
RECURSIVE FindRoot_FirstAncestor(_, _)
FindRoot_FirstAncestor(chain, root) ==
    IF chain = <<>> THEN root
    ELSE IF Head(chain) # <<>> THEN StrongRef(Head(chain)[1]) ELSE root

\* "while parent_ref: root_post = parent_ref.post; if root_post: root = ...;
\* parent_ref = parent_ref.parent"
RECURSIVE FindRoot(_, _)
FindRoot(chain, root) ==
    IF chain = <<>> THEN root
    ELSE FindRoot(Tail(chain),
            IF Head(chain) # <<>> THEN StrongRef(Head(chain)[1]) ELSE root)

\* BlueskyAccount._build_reply_ref on the thread of the reply target: <<>>
\* (None) when the thread shows no post
BuildReplyRef(thread) ==
    IF thread.post = <<>> THEN <<>>
    ELSE <<[root |-> FindRoot(thread.parents, StrongRef(thread.post[1])),
            parent |-> StrongRef(thread.post[1])]>>

\* get_post_thread answers
ReceiveThread ==
    /\ given = <<>>
    /\ \E thread \in ThreadViews : given' = <<thread>>
    /\ converted' = <<>>
    /\ UNCHANGED <<cursorVars, cacheVars, streamVars, invoked, guiVars>>

\* get_status_context returns the context of the thread
GetStatusContext ==
    /\ given # <<>>
    /\ converted = <<>>
    /\ converted' = <<[op |-> "context", ancestors |-> StatusContext(given[1]).ancestors,
                       descendants |-> StatusContext(given[1]).descendants,
                       ref |-> <<>>]>>
    /\ UNCHANGED <<cursorVars, cacheVars, streamVars, invoked, given, guiVars>>

\* _build_reply_ref returns the reference for a reply to the thread's post
BuildReplyRefOp ==
    /\ given # <<>>
    /\ converted = <<>>
    /\ converted' = <<[op |-> "reply_ref", ancestors |-> <<>>,
                       descendants |-> <<>>, ref |-> BuildReplyRef(given[1])]>>
    /\ UNCHANGED <<cursorVars, cacheVars, streamVars, invoked, given, guiVars>>

\* BlueskyAccount.post(text, reply_to_id) with the thread of the reply
\* target: "if reply_ref: post_kwargs['reply_to'] = reply_ref", then
\* client.send_post(**post_kwargs) in either case; ref is the reply_to the
\* request went out with, <<>> when it had none
PostReply ==
    /\ given # <<>>
    /\ converted = <<>>
    /\ converted' = <<[op |-> "send_post", ancestors |-> <<>>,
                       descendants |-> <<>>, ref |-> BuildReplyRef(given[1])]>>
    /\ UNCHANGED <<cursorVars, cacheVars, streamVars, invoked, given, guiVars>>

NextThread ==
    ReceiveThread \/ GetStatusContext \/ BuildReplyRefOp \/ PostReply

\* the steps a walk is followed for: past the longest chain, so that a walk
\* that does not advance shows
MaxSteps == MaxThread + 2

\* (variant: the walk does not move on to the parent's parent)
NextParent_Stay(chain) == chain

\* "parent = getattr(parent, 'parent', None)": on to the rest of the chain
NextParent(chain) == Tail(chain)

\* get_status_context or _build_reply_ref reaches its while loop: parent is
\* thread.parent, nothing visited yet. _build_reply_ref has returned None
\* before the loop when the thread shows no post.
StartWalk(op) ==
    /\ given # <<>>
    /\ converted = <<>>
    /\ LET thread == given[1]
           returns == op = "reply_ref" /\ thread.post = <<>>
       IN converted' =
             <<[op |-> op, parent |-> thread.parents, steps |-> 0,
                ancestors |-> <<>>,
                ref |-> IF op = "reply_ref" /\ thread.post # <<>>
                        THEN <<StrongRef(thread.post[1])>> ELSE <<>>,
                done |-> returns]>>
    /\ UNCHANGED <<cursorVars, cacheVars, streamVars, invoked, given, guiVars>>

\* one turn of "while parent:" in either method
WalkStep ==
    /\ converted # <<>>
    /\ ~converted[1].done
    /\ converted[1].parent # <<>>
    /\ converted[1].steps < MaxSteps
    /\ LET walk == converted[1]
           node == Head(walk.parent)
       IN converted' =
             <<[walk EXCEPT
                  !.ancestors = IF walk.op = "context" /\ node # <<>>
                                THEN <<PostViewToUniversal(node)>> \o @
                                ELSE @,
                  !.ref = IF walk.op = "reply_ref" /\ node # <<>>
                          THEN <<StrongRef(node[1])>> ELSE @,
                  !.parent = NextParent(@),
                  !.steps = @ + 1]>>
    /\ UNCHANGED <<cursorVars, cacheVars, streamVars, invoked, given, guiVars>>

\* parent is None: the loop is left and the method goes on to return
EndWalk ==
    /\ converted # <<>>
    /\ ~converted[1].done
    /\ converted[1].parent = <<>>
    /\ converted' = <<[converted[1] EXCEPT !.done = TRUE]>>
    /\ UNCHANGED <<cursorVars, cacheVars, streamVars, invoked, given, guiVars>>

NextWalk ==
    \/ ReceiveThread
    \/ \E op \in {"context", "reply_ref"} : StartWalk(op)
    \/ WalkStep
    \/ EndWalk

----------------------------------------------------------------------------
(* Mentions as statuses: src/platforms/mastodon/account.py *)

\* str(x) of a backend id
Str(n) == <<"str", n>>

\* a status as the Mastodon backend sends it
BackendStatus(n) == [id |-> n, account |-> IF n % 2 = 1 THEN "alice" ELSE "bob"]

\* the mention notifications of the backend: an id and the status, if any
MentionNotifications ==
    {[id |-> n, type |-> "mention", status |-> st] :
        n \in 1..MaxNotification,
        st \in {<<>>} \cup {<<BackendStatus(k)>> : k \in 1..NumPosts}}

\* mastodon_status_to_universal: the universal status keeps the backend's
\* id and the backend object as its payload; no auxiliary ids are set
MastodonStatusToUniversal(st) ==
    [id |-> Str(st.id), account |-> st.account, platform_data |-> st,
     notification_id |-> <<>>, original_status_id |-> <<>>]

\* get_mentions, the body of the loop: _notification_id and id are set to
\* str(notif.id)
MentionStatus(notif) ==
    [MastodonStatusToUniversal(notif.status[1])
        EXCEPT !.notification_id = <<Str(notif.id)>>,
               !.id = Str(notif.id)]

\* MastodonAccount.get_mentions on the notifications the backend returned
RECURSIVE MastodonGetMentions(_)
MastodonGetMentions(notifications) ==
    IF notifications = <<>> THEN <<>>
    ELSE IF Head(notifications).status # <<>>
         THEN <<MentionStatus(Head(notifications))>>
              \o MastodonGetMentions(Tail(notifications))
         ELSE MastodonGetMentions(Tail(notifications))

NotificationPages == UNION {[1..n -> MentionNotifications] : n \in 0..MaxFeed}

\* api.notifications(mentions_only=True) answers
ReceiveNotifications ==
    /\ given = <<>>
    /\ \E page \in NotificationPages : given' = <<page>>
    /\ converted' = <<>>
    /\ UNCHANGED <<cursorVars, cacheVars, streamVars, invoked, guiVars>>

\* get_mentions turns the page into statuses
GetMentionsOfPage ==
    /\ given # <<>>
    /\ converted = <<>>
    /\ converted' = <<MastodonGetMentions(given[1])>>
    /\ UNCHANGED <<cursorVars, cacheVars, streamVars, invoked, given, guiVars>>

NextMentions == ReceiveNotifications \/ GetMentionsOfPage

----------------------------------------------------------------------------
(* User actions on the selected status: src/GUI/misc.py *)

\* no user action yet, the counters at zero
NoAction ==
    /\ request = <<>>
    /\ prefs = [boosts_sent |-> 0, favourites_sent |-> 0]

\* a status as the timeline shows it: a converted feed item with the flag
\* "favourited" the actions keep on it
Shown(st, favourited) ==
    [id |-> st.id, reblog |-> st.reblog, favourited |-> favourited]

Selectable ==
    {Shown(PostToUniversal(i), f) : i \in FeedItems, f \in BOOLEAN}

\* misc.boost(account, status): account.boost(status.id), whose result is
\* not looked at, then the counter
Boost(ok) ==
    /\ given # <<>>
    /\ prefs.boosts_sent < MaxSent
    /\ request' = <<[method |-> "boost", id |-> given[1].id, ok |-> ok]>>
    /\ prefs' = [prefs EXCEPT !.boosts_sent = @ + 1]
    /\ UNCHANGED <<cursorVars, cacheVars, streamVars, invoked, given,
                   converted>>

\* misc.favourite(account, status): unfavourite when the flag is set,
\* favourite otherwise; the flag and the counter follow without a look at
\* the result
Favourite(ok) ==
    /\ given # <<>>
    /\ prefs.favourites_sent < MaxSent
    /\ IF given[1].favourited
       THEN /\ request' = <<[method |-> "unfavourite", id |-> given[1].id,
                             ok |-> ok]>>
            /\ given' = <<[given[1] EXCEPT !.favourited = FALSE]>>
            /\ prefs' = prefs
       ELSE /\ request' = <<[method |-> "favourite", id |-> given[1].id,
                             ok |-> ok]>>
            /\ given' = <<[given[1] EXCEPT !.favourited = TRUE]>>
            /\ prefs' = [prefs EXCEPT !.favourites_sent = @ + 1]
    /\ UNCHANGED <<cursorVars, cacheVars, streamVars, invoked, converted>>

NextAction ==
    \E ok \in BOOLEAN : Boost(ok) \/ Favourite(ok)

----------------------------------------------------------------------------
(* The live-update merger: src/streaming.py *)

StatusIds == 1..MaxStatus
\* notification ids are the backend's own numbering, not kept apart from the
\* status ids: the notification about status s (about no status for s = 0)
\* has an id that some status may carry as well
NotifIdOf(s) == s + 1

\* what the statuses are: the odd ones mention account.me, status 2 is
\* account.me's own
MentionsMe(s) == s % 2 = 1
AuthorOf(s) == IF s = 2 THEN "me" ELSE "other"

\* accounts as the stream handlers compare them: account.me and another
Accounts == {"me", "other"}

\* an item of a timeline buffer. id is the attribute the buffers are keyed
\* by; status_id is the id its embedded status object shows (0: none);
\* notification_id and original_status_id are the attributes
\* on_notification sets (0: not set); sid is history: the status the item
\* stands for (0: none).
Item(kind, id, ntype, status_id, nid, orig, sid, author, mentions_me) ==
    [kind |-> kind, id |-> id, ntype |-> ntype, status_id |-> status_id,
     notification_id |-> nid, original_status_id |-> orig, sid |-> sid,
     author |-> author, mentions_me |-> mentions_me, edited |-> FALSE]

\* a status as the stream delivers it
StreamStatus(s, author, mentions_me) ==
    Item("status", s, "", 0, 0, 0, s, author, mentions_me)

StreamStatuses ==
    {StreamStatus(s, AuthorOf(s), MentionsMe(s)) : s \in StatusIds}

\* a status after its author edited it, as status.update delivers it
EditedStatuses == {[status EXCEPT !.edited = TRUE] : status \in StreamStatuses}

\* a notification as the stream delivers it: a mention of account.me in
\* status s, a favourite of account.me's status s, or a follow (no status)
StreamNotifications ==
    {[id |-> NotifIdOf(s), type |-> "mention", account |-> AuthorOf(s),
      status |-> StreamStatus(s, AuthorOf(s), TRUE)] :
        s \in {t \in StatusIds : MentionsMe(t)}}
    \cup {[id |-> NotifIdOf(s), type |-> "favourite", account |-> "other",
           status |-> StreamStatus(s, "me", MentionsMe(s))] :
             s \in {t \in StatusIds : AuthorOf(t) = "me"}}
    \cup {[id |-> NotifIdOf(0), type |-> "follow", account |-> "other",
           status |-> StreamStatus(0, "", FALSE)]}

\* a timeline buffer: an ordered sequence plus the current-selection index
Timeline(type, name, user, members) ==
    [type |-> type, name |-> name, user |-> user, members |-> members,
     statuses |-> <<>>, index |-> 0]

\* the buffers an account has open, timelines[1] being the home timeline
Layouts ==
    {<<Timeline("home", "Home", "", {}),
       Timeline("notifications", "Notifications", "", {}),
       Timeline("mentions", "Mentions", "", {})>>,
     <<Timeline("home", "Home", "", {}),
       Timeline("mentions", "Mentions", "", {}),
       Timeline("user", "Sent", "", {}),
       Timeline("user", "other's Timeline", "other", {}),
       Timeline("list", "A List", "", {"other"})>>,
     <<Timeline("mentions", "Mentions", "", {}),
       Timeline("user", "Sent", "me", {}),
       Timeline("notifications", "Notifications", "", {})>>}

\* (variant: load inserts whatever it is given)
Load_Always(tl, item) ==
    [tl EXCEPT !.statuses = <<item>> \o @,
               !.index = IF Len(tl.statuses) = 0 THEN 0 ELSE @ + 1]

\* timeline.load(items=[item]): an item whose id the buffer already holds
\* is not inserted again; a new item goes to the front and the selection
\* keeps designating the entry it designated
Load(tl, item) ==
    IF \E i \in 1..Len(tl.statuses) : tl.statuses[i].id = item.id
    THEN tl
    ELSE [tl EXCEPT !.statuses = <<item>> \o @,
                    !.index = IF Len(tl.statuses) = 0 THEN 0 ELSE @ + 1]

IsMentions(tl) == tl.type = "mentions"
IsNotifications(tl) == tl.type = "notifications"
IsSent(tl) == tl.type = "user" /\ tl.name = "Sent"

\* the test a loop applies to each timeline
Passes(tl, test) ==
    CASE test = "mentions" -> IsMentions(tl)
      [] test = "notifications" -> IsNotifications(tl)
      [] test = "sent" -> IsSent(tl)

\* "for tl in timelines: if <test>: tl.load(...); break": the position of the
\* first timeline passing the test, 0 when none does
FirstTimeline(tls, test) ==
    IF \E i \in 1..Len(tls) : Passes(tls[i], test)
    THEN CHOOSE i \in 1..Len(tls) :
            Passes(tls[i], test) /\ \A j \in 1..(i - 1) : ~Passes(tls[j], test)
    ELSE 0

LoadInto(tls, i, item) ==
    IF i = 0 THEN tls ELSE [tls EXCEPT ![i] = Load(@, item)]

\* on_update, the closing loop over all timelines: a list timeline with the
\* author among its members, then a user timeline of the author
RECURSIVE UpdateUserTimelines(_, _, _)
UpdateUserTimelines(tls, i, status) ==
    IF i > Len(tls) THEN tls
    ELSE LET tl == tls[i]
             t1 == IF tl.type = "list" /\ status.author \in tl.members
                   THEN Load(tl, status) ELSE tl
             t2 == IF t1.type = "user" /\ t1.user # ""
                      /\ status.author = t1.user
                   THEN Load(t1, status) ELSE t1
         IN UpdateUserTimelines([tls EXCEPT ![i] = t2], i + 1, status)

\* MastodonStreamListener.on_update
OnUpdate(tls, status) ==
    LET t1 == IF Len(tls) > 0 THEN LoadInto(tls, 1, status) ELSE tls
        t2 == IF status.mentions_me
              THEN LoadInto(t1, FirstTimeline(t1, "mentions"), status)
              ELSE t1
        t3 == IF status.author = "me"
              THEN LoadInto(t2, FirstTimeline(t2, "sent"), status)
              ELSE t2
    IN UpdateUserTimelines(t3, 1, status)

\* the notification as a buffer item. Its status object is the one
\* on_notification renames afterwards, so a mention shows the notification's
\* id as its status's id
NotificationItem(n) ==
    Item("notification", n.id, n.type,
         IF n.status.id = 0 THEN 0
         ELSE IF n.type = "mention" THEN n.id ELSE n.status.id,
         0, 0, n.status.id, n.account, FALSE)

\* the status of a mention notification, keyed by the notification's id
MentionItem(n) ==
    Item("status", n.id, "", 0, n.id, n.status.id, n.status.id,
         n.status.author, n.status.mentions_me)

\* MastodonStreamListener.on_notification
OnNotification(tls, n) ==
    LET t1 == LoadInto(tls, FirstTimeline(tls, "notifications"),
                       NotificationItem(n))
    IN IF n.type = "mention" /\ n.status.id # 0
       THEN LoadInto(t1, FirstTimeline(t1, "mentions"), MentionItem(n))
       ELSE t1

\* "for i, status in enumerate(tl.statuses): if status.id == status_id:
\* tl.statuses.pop(i); break": the first entry with the id leaves the buffer,
\* tl.index is not touched
PopFirst(tl, status_id) ==
    IF \E i \in 1..Len(tl.statuses) : tl.statuses[i].id = status_id
    THEN LET i == CHOOSE k \in 1..Len(tl.statuses) :
                    /\ tl.statuses[k].id = status_id
                    /\ \A j \in 1..(k - 1) : tl.statuses[j].id # status_id
         IN [tl EXCEPT !.statuses =
                SubSeq(@, 1, i - 1) \o SubSeq(@, i + 1, Len(@))]
    ELSE tl

\* MastodonStreamListener.on_delete: every timeline of the account
OnDelete(tls, status_id) ==
    [t \in 1..Len(tls) |-> PopFirst(tls[t], status_id)]

\* a connection handler of the listener has run and spoken (<<>>: nothing)
Handled(handler, spoken) == [handler |-> handler, spoken |-> spoken]

\* on_abort speaks; err is not looked at
AbortMessage_Silent == <<>>
AbortMessage == <<"Stream disconnected for me">>

\* the errors a stream can abort with
StreamErrors == {"timeout", "closed"}

\* (variant: the edited status is taken out and put at the front)
ReplaceFirst_MoveToFront(tl, status) ==
    LET Other(entry) == entry.id # status.id
    IN IF \E i \in 1..Len(tl.statuses) : tl.statuses[i].id = status.id
       THEN [tl EXCEPT !.statuses = <<status>> \o SelectSeq(@, Other)]
       ELSE tl

\* "for i, s in enumerate(tl.statuses): if s.id == status.id:
\* tl.statuses[i] = status; break": the first entry with the id is replaced
ReplaceFirst(tl, status) ==
    IF \E i \in 1..Len(tl.statuses) : tl.statuses[i].id = status.id
    THEN LET i == CHOOSE k \in 1..Len(tl.statuses) :
                    /\ tl.statuses[k].id = status.id
                    /\ \A j \in 1..(k - 1) : tl.statuses[j].id # status.id
         IN [tl EXCEPT !.statuses[i] = status]
    ELSE tl

\* MastodonStreamListener.on_status_update: every timeline of the account
OnStatusUpdate(tls, status) ==
    [t \in 1..Len(tls) |-> ReplaceFirst(tls[t], status)]

NoStream ==
    /\ timelines = <<>>
    /\ delivered = {}
    /\ deleted = {}
    /\ event = Handled("", <<>>)
    /\ invoked = NotInvoked

\* the backend pushes a status that exists, and announces a deletion once
OnUpdateEvent(status) ==
    /\ status.id \notin deleted
    /\ timelines' = OnUpdate(timelines, status)
    /\ UNCHANGED event
    /\ UNCHANGED <<delivered, deleted>>
    /\ UNCHANGED <<cursorVars, cacheVars, invoked, convertVars, guiVars>>

OnNotificationEvent(n) ==
    /\ n.status.id \notin deleted
    /\ timelines' = OnNotification(timelines, n)
    /\ UNCHANGED event
    /\ UNCHANGED deleted
    /\ delivered' = IF n.type = "mention"
                    THEN delivered \cup {<<n.id, n.status.id>>}
                    ELSE delivered
    /\ UNCHANGED <<cursorVars, cacheVars, invoked, convertVars, guiVars>>

OnDeleteEvent(status_id) ==
    /\ status_id \notin deleted
    /\ timelines' = OnDelete(timelines, status_id)
    /\ deleted' = deleted \cup {status_id}
    /\ UNCHANGED event
    /\ UNCHANGED delivered
    /\ UNCHANGED <<cursorVars, cacheVars, invoked, convertVars, guiVars>>

\* the backend pushes the edited version of a status that exists
OnStatusUpdateEvent(status) ==
    /\ status.id \notin deleted
    /\ timelines' = OnStatusUpdate(timelines, status)
    /\ UNCHANGED event
    /\ UNCHANGED <<delivered, deleted>>
    /\ UNCHANGED <<cursorVars, cacheVars, invoked, convertVars, guiVars>>

\* MastodonStreamListener.handle_heartbeat: pass
HandleHeartbeat ==
    /\ event' = Handled("handle_heartbeat", <<>>)
    /\ UNCHANGED <<timelines, delivered, deleted>>
    /\ UNCHANGED <<cursorVars, cacheVars, invoked, convertVars, guiVars>>

\* MastodonStreamListener.on_abort(err): speak.speak(...) and nothing else
OnAbort(err) ==
    /\ event' = Handled("on_abort", AbortMessage)
    /\ UNCHANGED <<timelines, delivered, deleted>>
    /\ UNCHANGED <<cursorVars, cacheVars, invoked, convertVars, guiVars>>

NextStream ==
    \/ \E status \in StreamStatuses : OnUpdateEvent(status)
    \/ \E n \in StreamNotifications : OnNotificationEvent(n)
    \/ \E status_id \in StatusIds : OnDeleteEvent(status_id)
    \/ \E status \in EditedStatuses : OnStatusUpdateEvent(status)

\* the stream with its connection events; the buffers fill meanwhile
NextConnection ==
    \/ \E status \in StreamStatuses : OnUpdateEvent(status)
    \/ \E n \in StreamNotifications : OnNotificationEvent(n)
    \/ HandleHeartbeat
    \/ \E err \in StreamErrors : OnAbort(err)

----------------------------------------------------------------------------
(* Bluesky cursor bookkeeping: src/platforms/bluesky/account.py *)

\* Python's None; a cursor is None or a non-empty opaque token
None == <<>>
Tokens == {<<i>> : i \in 1..MaxCursor}
Cursor == {None} \cup Tokens

Args == 1..NumArgs
Callers == {"t1", "t2"}

Methods == {"get_home_timeline", "get_mentions", "get_notifications",
            "get_favourites", "get_user_statuses", "get_feed_timeline",
            "search_statuses"}

Keys == {<<"home", 0>>, <<"mentions", 0>>, <<"notifications", 0>>,
         <<"favourites", 0>>}
        \cup {<<"user_", a>> : a \in Args}
        \cup {<<"feed_", a>> : a \in Args}
        \cup {<<"search_", a>> : a \in Args}

\* the logical timeline a method call is about (spec section 4.4: home,
\* mentions, notifications, favourites, per-user id, per-feed uri,
\* per-search-query); the history variables are indexed by it
TimelineKey(m, a) ==
    CASE m = "get_home_timeline" -> <<"home", 0>>
      [] m = "get_mentions"      -> <<"mentions", 0>>
      [] m = "get_notifications" -> <<"notifications", 0>>
      [] m = "get_favourites"    -> <<"favourites", 0>>
      [] m = "get_user_statuses" -> <<"user_", a>>
      [] m = "get_feed_timeline" -> <<"feed_", a>>
      [] m = "search_statuses"   -> <<"search_", a>>

\* the key a method reads its stored cursor under
ReadKey(m, a) ==
    CASE m = "get_home_timeline" -> <<"home", 0>>
      [] m = "get_mentions"      -> <<"mentions", 0>>
      [] m = "get_notifications" -> <<"notifications", 0>>
      [] m = "get_favourites"    -> <<"favourites", 0>>
      [] m = "get_user_statuses" -> <<"user_", a>>
      [] m = "get_feed_timeline" -> <<"feed_", a>>
      [] m = "search_statuses"   -> <<"search_", a>>

\* mutant: get_notifications stores under the mentions key
StoreKey_SharedEndpoint(m, a) ==
    IF m = "get_notifications" THEN <<"mentions", 0>> ELSE ReadKey(m, a)

\* the key a method stores the response's cursor under
StoreKey(m, a) ==
    CASE m = "get_home_timeline" -> <<"home", 0>>
      [] m = "get_mentions"      -> <<"mentions", 0>>
      [] m = "get_notifications" -> <<"notifications", 0>>
      [] m = "get_favourites"    -> <<"favourites", 0>>
      [] m = "get_user_statuses" -> <<"user_", a>>
      [] m = "get_feed_timeline" -> <<"feed_", a>>
      [] m = "search_statuses"   -> <<"search_", a>>

\* the operation label a method reports its failure under
Label(m) ==
    CASE m = "get_home_timeline" -> "home timeline"
      [] m = "get_mentions"      -> "mentions"
      [] m = "get_notifications" -> "notifications"
      [] m = "get_favourites"    -> "favourites"
      [] m = "get_user_statuses" -> "user statuses"
      [] m = "get_feed_timeline" -> "feed"
      [] m = "search_statuses"   -> "search"

\* the exception classes a timeline method's except clauses catch:
\* "AtProtocolError" stands for (AtProtocolError, InvokeTimeoutError),
\* "Exception" for anything else (a response validation error).
Catches(m) ==
    IF m = "get_home_timeline" THEN {"AtProtocolError", "Exception"}
                               ELSE {"AtProtocolError"}

Failures == {"AtProtocolError", "Exception"}

\* mutant: a cursor is stored only under a key that holds none yet
StoreCursor_KeepFirst(cs, key, cursor) ==
    IF cursor # None /\ cs[key] = None THEN [cs EXCEPT ![key] = cursor] ELSE cs

\* _store_cursor: a falsy cursor is not stored
StoreCursor(cs, key, cursor) ==
    IF cursor # None THEN [cs EXCEPT ![key] = cursor] ELSE cs

\* mutant: a missing key yields a default token instead of None
GetCursor_Default(cs, key) == IF cs[key] = None THEN <<1>> ELSE cs[key]

\* _get_cursor: dict.get, None when the key is absent
GetCursor(cs, key) == cs[key]

\* mutant: the stored cursor is substituted whenever no cursor is passed
CursorToSend_AlwaysStored(cs, key, cursor, max_id) ==
    IF cursor = None THEN GetCursor(cs, key) ELSE cursor

\* "if max_id and not cursor: cursor = self._get_cursor(key)", then the
\* cursor goes into the request (left out of the request when falsy)
CursorToSend(cs, key, cursor, max_id) ==
    IF max_id /\ cursor = None THEN GetCursor(cs, key) ELSE cursor

\* the page the backend serves for a request: the first page without cursor
PageOf(sent) == IF sent = None THEN 0 ELSE sent[1]

Idle ==
    [pc |-> "idle", method |-> "", arg |-> 0, cursor |-> None,
     max_id |-> FALSE, stored |-> None, sent |-> None, alone |-> TRUE,
     prev |-> None, ret |-> None, reported |-> FALSE,
     result |-> <<"none">>]

\* the cursor map, no call issued yet (BlueskyAccount.__init__)
NoCursorActivity ==
    /\ cursors = [k \in Keys |-> None]
    /\ calls = [c \in Callers |-> Idle]
    /\ errors = {}
    /\ open = {}
    /\ threads = {}
    /\ cursorArgs = {}
    /\ returned = [k \in Keys |-> None]
    /\ lastDone = "none"

InitCursor ==
    /\ EmptyCache
    /\ NoStream
    /\ NoConversion
    /\ NoAction
    /\ cursors = [k \in Keys |-> None]
    /\ calls = [c \in Callers |-> Idle]
    /\ errors = {}
    /\ open \in {S \in SUBSET Keys : Cardinality(S) = 2}
    /\ threads = {"t1"}
    /\ cursorArgs = Cursor
    /\ returned = [k \in Keys |-> None]
    /\ lastDone = "none"

\* two worker threads loading more of one open timeline
InitRace ==
    /\ EmptyCache
    /\ NoStream
    /\ NoConversion
    /\ NoAction
    /\ cursors = [k \in Keys |-> None]
    /\ calls = [c \in Callers |-> Idle]
    /\ errors = {}
    /\ open \in {{k} : k \in Keys}
    /\ threads = Callers
    /\ cursorArgs = {None}
    /\ returned = [k \in Keys |-> None]
    /\ lastDone = "none"

\* the part of a timeline method up to the blocking backend request
Issue(c, m, a, cursor, max_id) ==
    LET tl == TimelineKey(m, a) IN
    /\ c \in threads
    /\ cursor \in cursorArgs
    /\ calls[c].pc # "waiting"
    /\ tl \in open
    /\ calls' = [calls EXCEPT ![c] =
           [pc |-> "waiting", method |-> m, arg |-> a, cursor |-> cursor,
            max_id |-> max_id, stored |-> cursors[tl],
            sent |-> CursorToSend(cursors, ReadKey(m, a), cursor, max_id),
            alone |-> \A d \in Callers \ {c} :
                         ~(calls[d].pc = "waiting"
                           /\ TimelineKey(calls[d].method, calls[d].arg) = tl),
            prev |-> returned[tl], ret |-> None, reported |-> FALSE,
            result |-> <<"none">>]]
    /\ UNCHANGED <<cursors, errors, open, threads, cursorArgs, returned, lastDone>>
    /\ UNCHANGED <<cacheVars, streamVars, invoked, convertVars, guiVars>>

GetHomeTimeline(c) ==
    \E cursor \in Cursor, max_id \in BOOLEAN :
        Issue(c, "get_home_timeline", 0, cursor, max_id)

GetMentions(c) ==
    \E cursor \in Cursor, max_id \in BOOLEAN :
        Issue(c, "get_mentions", 0, cursor, max_id)

GetNotifications(c) ==
    \E cursor \in Cursor, max_id \in BOOLEAN :
        Issue(c, "get_notifications", 0, cursor, max_id)

GetFavourites(c) ==
    \E cursor \in Cursor, max_id \in BOOLEAN :
        Issue(c, "get_favourites", 0, cursor, max_id)

GetUserStatuses(c) ==
    \E a \in Args, cursor \in Cursor, max_id \in BOOLEAN :
        Issue(c, "get_user_statuses", a, cursor, max_id)

GetFeedTimeline(c) ==
    \E a \in Args, cursor \in Cursor, max_id \in BOOLEAN :
        Issue(c, "get_feed_timeline", a, cursor, max_id)

SearchStatuses(c) ==
    \E a \in Args, cursor \in Cursor, max_id \in BOOLEAN :
        Issue(c, "search_statuses", a, cursor, max_id)

\* the backend answers: the response's cursor is stored, the feed converted
Respond(c) ==
    /\ calls[c].pc = "waiting"
    /\ \E next \in Cursor :
        /\ cursors' = StoreCursor(cursors,
                          StoreKey(calls[c].method, calls[c].arg), next)
        /\ calls' = [calls EXCEPT ![c].pc = "done", ![c].ret = next,
                         ![c].result = <<"page", PageOf(calls[c].sent)>>]
        /\ returned' = IF next # None
                       THEN [returned EXCEPT
                               ![TimelineKey(calls[c].method, calls[c].arg)] = next]
                       ELSE returned
    /\ lastDone' = c
    /\ UNCHANGED <<errors, open, threads, cursorArgs>>
    /\ UNCHANGED <<cacheVars, streamVars, invoked, convertVars, guiVars>>

\* (variant: a failed call forgets the cursor of its key)
CursorsAfterFailure_Reset(cs, key) == [cs EXCEPT ![key] = None]

\* the request raised: control leaves the try block before _store_cursor,
\* and the except clause does not touch self._cursors
CursorsAfterFailure(cs, key) == cs

\* the backend call raises: caught exceptions are reported and [] returned
Fail(c) ==
    /\ calls[c].pc = "waiting"
    /\ \E e \in Failures :
        IF e \in Catches(calls[c].method)
        THEN /\ errors' = errors \cup {Label(calls[c].method)}
             /\ calls' = [calls EXCEPT ![c].pc = "done",
                              ![c].reported = TRUE,
                              ![c].result = <<"empty">>]
        ELSE /\ errors' = errors
             /\ calls' = [calls EXCEPT ![c].pc = "done",
                              ![c].result = <<"raised">>]
    /\ lastDone' = c
    /\ cursors' = CursorsAfterFailure(cursors,
                      StoreKey(calls[c].method, calls[c].arg))
    /\ UNCHANGED <<open, threads, cursorArgs, returned>>
    /\ UNCHANGED <<cacheVars, streamVars, invoked, convertVars, guiVars>>

NextCursor ==
    \E c \in Callers :
        \/ GetHomeTimeline(c)
        \/ GetMentions(c)
        \/ GetNotifications(c)
        \/ GetFavourites(c)
        \/ GetUserStatuses(c)
        \/ GetFeedTimeline(c)
        \/ SearchStatuses(c)
        \/ Respond(c)
        \/ Fail(c)

SpecCursor == InitCursor /\ [][NextCursor]_vars

SpecRace == InitRace /\ [][NextCursor]_vars

\* no adapter call made yet, nothing else running
InitAdapter ==
    /\ NoCursorActivity
    /\ EmptyCache
    /\ NoStream
    /\ NoConversion
    /\ NoAction

\* adapter calls against a backend that answers or fails
SpecAdapter == InitAdapter /\ [][NextAdapter]_vars

\* a Bluesky account with a cached user, paging one timeline
InitUnsupported ==
    /\ NoStream
    /\ NoConversion
    /\ NoAction
    /\ users = <<User(1, 1)>>
    /\ unknown_users = <<>>
    /\ loader = [pc |-> "done", file |-> Unreadable]
    /\ lastOp = NoOp
    /\ cursors = [k \in Keys |-> None]
    /\ calls = [c \in Callers |-> Idle]
    /\ errors = {}
    /\ open \in {{k} : k \in Keys}
    /\ threads = {"t1"}
    /\ cursorArgs = Cursor
    /\ returned = [k \in Keys |-> None]
    /\ lastDone = "none"

\* the methods of the capabilities Bluesky lacks, called between paging calls
NextUnsupported ==
    \/ NextCursor
    \/ \E m \in UnsupportedOnBluesky, f \in BlueskyFailures \cup {""} :
          BlueskyCall(m, f)

SpecUnsupported == InitUnsupported /\ [][NextUnsupported]_vars

\* the adapter idle, no page received yet
InitConvert ==
    /\ NoCursorActivity
    /\ EmptyCache
    /\ NoStream
    /\ NoConversion
    /\ NoAction

\* feed pages received and converted
SpecConvert == InitConvert /\ [][NextConvert]_vars

\* single posts converted, whole and partial payloads
SpecPost == InitConvert /\ [][NextPost]_vars

\* the ancestor walks turn by turn; the thread that runs a walk keeps running
SpecWalk ==
    InitConvert /\ [][NextWalk]_vars /\ WF_vars(WalkStep) /\ WF_vars(EndWalk)

\* threads fetched for the conversation view and for replies
SpecThread == InitConvert /\ [][NextThread]_vars

\* the Mastodon mentions timeline is fetched
SpecMentions == InitConvert /\ [][NextMentions]_vars

\* a status of the timeline is selected
InitAction ==
    /\ NoCursorActivity
    /\ EmptyCache
    /\ NoStream
    /\ given \in {<<st>> : st \in Selectable}
    /\ converted = <<>>
    /\ NoAction

\* boost and favourite commands on the selected status
SpecAction == InitAction /\ [][NextAction]_vars

\* the listener attached to an account's timelines, nothing else running
InitStream ==
    /\ timelines \in Layouts
    /\ delivered = {}
    /\ deleted = {}
    /\ event = Handled("", <<>>)
    /\ invoked = NotInvoked
    /\ NoConversion
    /\ NoAction
    /\ NoCursorActivity
    /\ EmptyCache

\* the push stream of one account
SpecStream == InitStream /\ [][NextStream]_vars

\* the same listener while heartbeats and disconnects arrive
SpecConnection == InitStream /\ [][NextConnection]_vars

\* UserCache.__init__ followed by load(): the thread is started
InitCache ==
    /\ NoCursorActivity
    /\ NoStream
    /\ NoConversion
    /\ NoAction
    /\ users = <<>>
    /\ unknown_users = <<>>
    /\ loader \in {[pc |-> "pending", file |-> f] :
                      f \in CacheFiles \cup {Unreadable}}
    /\ lastOp = NoOp

\* the cache as a timeline call finds it, the background load done: empty,
\* or filled to the cap
InitPage ==
    /\ NoCursorActivity
    /\ NoStream
    /\ NoConversion
    /\ NoAction
    /\ users \in {<<>>, Loaded(CacheFile(MAX_CACHE_SIZE + 1))}
    /\ unknown_users = <<>>
    /\ loader = [pc |-> "done", file |-> Unreadable]
    /\ lastOp = NoOp

\* timeline pages fed into the cache
SpecPage == InitPage /\ [][NextPage]_vars

\* the cache operations one after another
SpecCache == InitCache /\ [][NextCache]_vars

\* the same, with add_user calls overlapping the background load
SpecCacheLoad ==
    InitCache /\ [][NextCache \/ \E u \in Users : AddUserRacingLoad(u)]_vars

----------------------------------------------------------------------------
(* Properties of the cursor bookkeeping *)

Continuation(r) == r.pc # "idle" /\ r.max_id /\ r.cursor = None
Fresh(r) == r.pc # "idle" /\ ~r.max_id /\ r.cursor = None
Answered(r) == r.pc = "done" /\ r.result[1] = "page"
KeyOfCall(r) == TimelineKey(r.method, r.arg)

\* C1: a continuation request for key K (max_id, no cursor) goes to the
\* backend with the cursor stored for K when it was issued; a fresh request
\* (no max_id, no cursor) goes with no cursor whatever is stored; an
\* explicitly supplied cursor goes as given.
C1_CursorSent ==
    \A c \in Callers :
        LET r == calls[c] IN
        /\ Continuation(r) => r.sent = r.stored
        /\ Fresh(r) => r.sent = None
        /\ (r.pc # "idle" /\ r.cursor # None) => r.sent = r.cursor

\* a continuation was sent with a stored cursor, while another timeline
\* holds a different one
C1_Witness ==
    \E c \in Callers :
        /\ Continuation(calls[c])
        /\ calls[c].stored # None
        /\ calls[c].sent = calls[c].stored
        /\ \E k \in Keys : cursors[k] # None /\ cursors[k] # calls[c].stored

\* C2 (as claimed): after a successful call for K the value stored under K
\* is exactly the cursor the call returned, also when it returned none.
C2_StoredIsReturned ==
    \A c \in Callers :
        (lastDone = c /\ Answered(calls[c]))
            => cursors[KeyOfCall(calls[c])] = calls[c].ret

\* C3: a continuation for a key with no stored cursor is no error: the
\* backend is called with no cursor, nothing is reported, and the page
\* the backend answers with is the first page.
C3_ContinuationWithoutCursor ==
    \A c \in Callers :
        LET r == calls[c] IN
        (Continuation(r) /\ r.stored = None) =>
            /\ r.sent = None
            /\ Answered(r) => (r.result = <<"page", 0>> /\ ~r.reported)

\* such a continuation was answered
C3_Witness ==
    \E c \in Callers :
        /\ Continuation(calls[c])
        /\ calls[c].stored = None
        /\ Answered(calls[c])
        /\ calls[c].result = <<"page", 0>>

\* C4: a step changes the cursor stored under a key only when it completes
\* a call for that very timeline; a failing call changes no cursor at all.
C4_OtherKeysUntouched ==
    [][\A k \in Keys :
          cursors'[k] # cursors[k] =>
              \E c \in Callers :
                  /\ calls[c].pc = "waiting"
                  /\ calls'[c].pc = "done"
                  /\ calls'[c].result[1] = "page"
                  /\ KeyOfCall(calls[c]) = k]_vars

\* the mentions and the notifications timelines (one backend endpoint) hold
\* different cursors, the latest call having been a notifications call
C4_Witness ==
    /\ cursors[<<"mentions", 0>>] # None
    /\ cursors[<<"notifications", 0>>] # None
    /\ cursors[<<"mentions", 0>>] # cursors[<<"notifications", 0>>]
    /\ \E c \in Callers :
          /\ lastDone = c
          /\ Answered(calls[c])
          /\ calls[c].method = "get_notifications"

----------------------------------------------------------------------------
(* Properties of the user cache *)

CountId(us, id) == Cardinality({i \in 1..Len(us) : us[i].id = id})

\* C6: add_user is idempotent per id: adding a user whose id is cached
\* leaves the number of cached users unchanged, leaves exactly one entry
\* with that id and puts the added instance at the front; adding any user
\* a second time in a row changes nothing.
C6_AddUserIdempotent ==
    [][\A u \in Users :
          AddUserOp(u) =>
              /\ AddUser(users', u) = users'
              /\ HasId(users, u.id) =>
                    /\ Len(users') = Len(users)
                    /\ CountId(users', u.id) = 1
                    /\ users'[1] = u]_vars

\* the second snapshot of account 1 was added while account 1 was cached
\* along with others, and is at the front
C6_Witness ==
    /\ lastOp.op = "add_user"
    /\ lastOp.hit
    /\ lastOp.user = User(1, 2)
    /\ Len(users) >= 2
    /\ users[1] = User(1, 2)

\* C7: whatever sequence of add_user, add_users_from_status,
\* add_users_from_notification, lookup_by_name with a callback, background
\* load (also one overlapping an add_user) and clear has run, the cache
\* holds at most MAX_CACHE_SIZE users.
C7_CacheBounded == Len(users) <= MAX_CACHE_SIZE

\* a cache file longer than the cap has been loaded and the cache is full
C7_Witness ==
    /\ lastOp.op = "load"
    /\ lastOp.full
    /\ Len(users) = MAX_CACHE_SIZE

\* C8: add_user of an uncached id into a full cache removes exactly the
\* tail entry, puts the new user at the front and keeps the order of the
\* others; while the cache is not full no entry is evicted.
C8_EvictsTail ==
    [][\A u \in Users :
          AddUserOp(u) =>
              /\ (~HasId(users, u.id) /\ Len(users) = MAX_CACHE_SIZE) =>
                    /\ Len(users') = MAX_CACHE_SIZE
                    /\ users'[1] = u
                    /\ \A i \in 1..(MAX_CACHE_SIZE - 1) : users'[i + 1] = users[i]
                    /\ \A j \in 1..Len(users') :
                          users'[j] # users[MAX_CACHE_SIZE]
              /\ Len(users) < MAX_CACHE_SIZE =>
                    \A i \in 1..Len(users) :
                        users[i].id # u.id =>
                            \E j \in 1..Len(users') : users'[j] = users[i]]_vars

\* an uncached user was added to a full cache
C8_Witness ==
    /\ lastOp.op = "add_user"
    /\ ~lastOp.hit
    /\ lastOp.full
    /\ Len(users) = MAX_CACHE_SIZE
    /\ users[1] = lastOp.user


\* the positions of the unknown-ids collection that hold id
UnknownPositions(unk, id) == {i \in 1..Len(unk) : unk[i] = id}

\* C18: lookup_by_id on a miss returns not-found, leaves the requested id
\* exactly once in unknown_users (keeping the ids already there), makes no
\* adapter call and leaves the cached users as they are; on a hit it returns
\* the cached user and leaves users and unknown_users unchanged.
C18_LookupById ==
    [][\A id \in LookupIds :
          LookupById(id) =>
              /\ users' = users
              /\ invoked' = invoked
              /\ ~HasId(users, id) =>
                    /\ lastOp'.result = NoUser
                    /\ Cardinality(UnknownPositions(unknown_users', id)) = 1
                    /\ \A i \in 1..Len(unknown_users) :
                          unknown_users'[i] = unknown_users[i]
              /\ HasId(users, id) =>
                    /\ lastOp'.result.id = id
                    /\ \E i \in 1..Len(users) : users[i] = lastOp'.result
                    /\ unknown_users' = unknown_users]_vars

\* a second id was missed after another one had been recorded, with users
\* in the cache
C18_Witness ==
    /\ lastOp.op = "lookup_by_id"
    /\ ~lastOp.hit
    /\ Len(unknown_users) = 2
    /\ Len(users) > 0

\* C19 (as claimed): no id in unknown_users is the id of a cached user.
C19_UnknownNotCached ==
    \A i \in 1..Len(unknown_users) : ~HasId(users, unknown_users[i])

\* the name matches a cached user's acct or the part of it before '@'
NameHit(us, name) ==
    \E i \in 1..Len(us) :
        \/ LowerStr(us[i].acct) = LowerStr(LStripAt(name))
        \/ LowerStr(LocalPart(us[i].acct)) = LowerStr(LStripAt(name))

\* C20: lookup_by_name calls the recovery callback only on a miss and only
\* when one is supplied; a user the callback returns is put at the front of
\* the cache and returned; without a callback, or when it returns nothing,
\* the result is not-found and users and unknown_users are unchanged.
C20_LookupByName ==
    [][\A name \in Names, callback \in Callbacks :
          LookupByName(name, callback) =>
              /\ lastOp'.full => (~NameHit(users, name) /\ callback.given)
              /\ NameHit(users, name) =>
                    /\ ~lastOp'.full
                    /\ users' = users
                    /\ unknown_users' = unknown_users
              /\ (~NameHit(users, name) /\ callback.given
                  /\ callback.answer # NoUser) =>
                    /\ lastOp'.full
                    /\ users'[1] = callback.answer
                    /\ lastOp'.result = callback.answer
              /\ (~NameHit(users, name)
                  /\ (~callback.given \/ callback.answer = NoUser)) =>
                    /\ lastOp'.result = NoUser
                    /\ users' = users
                    /\ unknown_users' = unknown_users]_vars

\* the callback was asked after a miss in a non-empty cache and its user is
\* now at the front
C20_Witness ==
    /\ lastOp.op = "lookup_by_name"
    /\ ~lastOp.hit
    /\ lastOp.full
    /\ lastOp.user # NoUser
    /\ Len(users) >= 2
    /\ users[1] = lastOp.user

\* user u answers to the name: without its leading '@'s and in lower case
\* the name is u's acct or the part of u's acct before the first '@', in
\* lower case
Answers(u, name) ==
    \/ LowerStr(u.acct) = LowerStr(LStripAt(name))
    \/ LowerStr(LocalPart(u.acct)) = LowerStr(LStripAt(name))

\* C21: lookup_by_name strips the leading '@' and folds case, and returns a
\* cached user exactly when the name then equals that user's acct or its
\* local part, case-insensitively; of several matching users the most
\* recently seen (the first in the cache) is returned.
C21_NameMatching ==
    [][\A name \in Names, callback \in Callbacks :
          LookupByName(name, callback) =>
              /\ (\E i \in 1..Len(users) : Answers(users[i], name)) =>
                    \E i \in 1..Len(users) :
                        /\ Answers(users[i], name)
                        /\ \A j \in 1..(i - 1) : ~Answers(users[j], name)
                        /\ lastOp'.result = users[i]
                        /\ lastOp'.hit
              /\ (\A i \in 1..Len(users) : ~Answers(users[i], name)) =>
                    /\ ~lastOp'.hit
                    /\ ~callback.given => lastOp'.result = NoUser]_vars

\* two cached users answer to the name given; the one seen last, matched
\* by its local part in another case, was returned
C21_Witness ==
    /\ lastOp.op = "lookup_by_name"
    /\ lastOp.hit
    /\ Len(users) >= 2
    /\ lastOp.result = users[1]
    /\ users[1].id = 2
    /\ \E i \in 2..Len(users) : users[i].id = 1

----------------------------------------------------------------------------
(* Properties of the live-update merger *)

\* the positions of the items of a buffer that stand for status s
ItemsFor(tl, s) == {i \in 1..Len(tl.statuses) : tl.statuses[i].sid = s}

\* C9 (as claimed): once the mention notification n for status s has been
\* processed, whatever other push events are processed before or after it,
\* the mentions buffer holds the mention of s exactly once, keyed by n.
C9_MentionExactlyOnce ==
    \A d \in delivered :
        \A t \in 1..Len(timelines) :
            IsMentions(timelines[t]) =>
                /\ Cardinality(ItemsFor(timelines[t], d[2])) = 1
                /\ \A i \in ItemsFor(timelines[t], d[2]) :
                      timelines[t].statuses[i].id = d[1]


----------------------------------------------------------------------------
(* Properties of the adapters' error policy *)

\* the library error class of a platform: its transport/protocol failures
TransportFailure(platform) ==
    IF platform = "mastodon" THEN "MastodonError" ELSE "AtProtocolError"

\* C10 (as claimed): no adapter method of either adapter lets a
\* transport/protocol exception of the backend client reach its caller; it
\* returns the no-result value of its return type.
C10_NoTransportExceptionPropagates ==
    (invoked.platform # "" /\ invoked.failure = TransportFailure(invoked.platform))
        => invoked.result = NoResultOf(invoked.method)


\* C11 (as claimed): an adapter call that meets a transport/protocol failure
\* and returns its no-result value has invoked the error reporter.
C11_FailureIsReported ==
    (/\ invoked.contacted
     /\ invoked.failure = TransportFailure(invoked.platform)
     /\ invoked.result = NoResultOf(invoked.method))
        => invoked.reported

\* C12: on the Bluesky adapter a call of an unsupported list/DM method returns
\* the empty list (False for add_to_list / remove_from_list) without
\* contacting the backend, without reporting an error and without changing
\* the cursor map or the user cache.
C12_UnsupportedIsNotAnError ==
    [][(/\ invoked' # invoked
        /\ invoked'.platform = "bluesky"
        /\ invoked'.method \in UnsupportedOnBluesky)
          => /\ invoked'.result =
                  (IF invoked'.method \in {"add_to_list", "remove_from_list"}
                   THEN "False" ELSE "[]")
             /\ ~invoked'.contacted
             /\ ~invoked'.reported
             /\ errors' = errors
             /\ cursors' = cursors
             /\ users' = users
             /\ unknown_users' = unknown_users]_vars

C12_Witness ==
    /\ invoked.platform = "bluesky"
    /\ invoked.method = "get_list_timeline"
    /\ invoked.result = "[]"
    /\ \E k \in Keys : cursors[k] # None
    /\ Len(users) > 0


----------------------------------------------------------------------------
(* Properties of the feed conversion *)

\* the position in the converted page of the status made from entry i
PositionOf(feed, i) == Cardinality({j \in 1..i : feed[j] # <<>>})

\* entry i of the received page wraps a post in a repost reason
RepostEntry(i) ==
    /\ given[1][i] # <<>>
    /\ given[1][i][1].post # <<>>
    /\ given[1][i][1].reason # <<>>
    /\ given[1][i][1].reason[1].type = "reasonRepost"

\* C13: a feed item whose reason is a repost by U_repost of post P by U_orig
\* converts to a status with account U_repost, reblog.account U_orig,
\* reblog.id = P.id, reblog.reblog null and empty own content; an item
\* without a repost reason converts to a status with reblog null.
C13_RepostSynthesis ==
    converted # <<>> =>
        \A i \in 1..Len(given[1]) :
            given[1][i] # <<>> =>
                LET item == given[1][i][1]
                    st == converted[1][PositionOf(given[1], i)]
                IN /\ (RepostEntry(i) /\ item.reason[1].by # <<>>) =>
                         /\ st.account # <<>>
                         /\ st.account[1].id = item.reason[1].by[1].did
                         /\ st.account[1].acct = item.reason[1].by[1].handle
                         /\ st.reblog # <<>>
                         /\ st.reblog[1].account # <<>>
                         /\ st.reblog[1].account[1].id
                               = item.post[1].author[1].did
                         /\ st.reblog[1].id = StatusId(item.post[1].uri, "")
                         /\ st.reblog[1].reblog = <<>>
                         /\ st.content = "" /\ st.text = ""
                         /\ st.favourites_count = 0 /\ st.boosts_count = 0
                         /\ st.replies_count = 0
                         /\ st.media_attachments = <<>>
                         /\ st.mentions = <<>>
                         /\ st.quote = <<>>
                   /\ (item.reason = <<>>
                       \/ item.reason[1].type # "reasonRepost") =>
                         st.reblog = <<>>

C13_Witness ==
    /\ converted # <<>>
    /\ Len(given[1]) = 2
    /\ RepostEntry(1) /\ given[1][1][1].reason[1].by # <<>>
    /\ given[1][1][1].post[1].text # ""
    /\ given[1][2] # <<>> /\ given[1][2][1].reason = <<>>
    /\ converted[1][1].reblog # <<>>

\* C14: a repost wrapper without reposter identity is still converted: the
\* status's account is a placeholder user marked unknown, its reblog is the
\* converted original post, and the page yields one status per feed item.
C14_MissingReposterKept ==
    converted # <<>> =>
        /\ Len(converted[1]) = PositionOf(given[1], Len(given[1]))
        /\ \A i \in 1..Len(given[1]) :
              (RepostEntry(i) /\ given[1][i][1].reason[1].by = <<>>) =>
                  LET item == given[1][i][1]
                      st == converted[1][PositionOf(given[1], i)]
                  IN /\ st.account # <<>>
                     /\ st.account[1].id = <<"unknown">>
                     /\ st.account[1].acct = "unknown"
                     /\ st.reblog # <<>>
                     /\ st.reblog[1].id = StatusId(item.post[1].uri, "")
                     /\ st.reblog[1].text = item.post[1].text
                     /\ st.reblog[1].account # <<>>
                     /\ st.reblog[1].account[1].id
                           = item.post[1].author[1].did

C14_Witness ==
    /\ converted # <<>>
    /\ Len(given[1]) = 2
    /\ RepostEntry(2) /\ given[1][2][1].reason[1].by = <<>>
    /\ Len(converted[1]) = 2
    /\ converted[1][2].account[1].id = <<"unknown">>


----------------------------------------------------------------------------
(* Properties of the user actions *)

\* C15 (as claimed): a boost, favourite or unfavourite started from a status
\* that bears a reblog is sent to the adapter with the reblog's id.
C15_ActsOnReblogId ==
    (request # <<>> /\ given[1].reblog # <<>>)
        => request[1].id = given[1].reblog[1].id


----------------------------------------------------------------------------
(* Properties of mentions-as-statuses *)

\* the position in the result of the status made from notification i
MentionPosition(page, i) ==
    Cardinality({j \in 1..i : page[j].status # <<>>})

\* C16 (as claimed): get_mentions returns, in order, one status per mention
\* notification that carries a status; its id is the notification's id and
\* the original status id is still held in an auxiliary reference.
C16_MentionsAsStatuses ==
    converted # <<>> =>
        /\ Len(converted[1]) = MentionPosition(given[1], Len(given[1]))
        /\ \A i \in 1..Len(given[1]) :
              given[1][i].status # <<>> =>
                  LET st == converted[1][MentionPosition(given[1], i)]
                  IN /\ st.id = Str(given[1][i].id)
                     /\ st.original_status_id
                           = <<Str(given[1][i].status[1].id)>>


----------------------------------------------------------------------------
(* Properties of the timeline buffers under push events *)

\* the positions (from 1) at which a buffer holds the entry e
PositionsOf(statuses, e) == {i \in 1..Len(statuses) : statuses[i] = e}

\* the entry the current-selection index (from 0) designates, if any
SelectedOf(tl) ==
    IF tl.index + 1 \in 1..Len(tl.statuses)
    THEN <<tl.statuses[tl.index + 1]>> ELSE <<>>

\* C17 (as claimed): when a push event inserts into or deletes from a
\* buffer, afterwards the index is a valid position (or the buffer is empty),
\* it designates the entry it designated before unless that entry was
\* deleted, and the entries that stay keep their relative order.
C17_IndexConsistent ==
    [][\A t \in 1..Len(timelines) :
          LET old == timelines[t]
              new == timelines'[t]
          IN new.statuses # old.statuses =>
               /\ Len(new.statuses) = 0
                  \/ new.index \in 0..(Len(new.statuses) - 1)
               /\ (/\ SelectedOf(old) # <<>>
                   /\ PositionsOf(new.statuses, SelectedOf(old)[1]) # {})
                     => SelectedOf(new) = SelectedOf(old)
               /\ \A i, j \in 1..Len(old.statuses) :
                     \A k \in PositionsOf(new.statuses, old.statuses[i]) :
                        \A l \in PositionsOf(new.statuses, old.statuses[j]) :
                           i < j => k < l]_vars


----------------------------------------------------------------------------
(* Properties of the thread walks *)

\* the positions of the parent chain (1: the immediate parent) that resolved
ResolvedIn(chain) == {i \in 1..Len(chain) : chain[i] # <<>>}

\* the positions of the replies that resolved
RepliesIn(replies) == {i \in 1..Len(replies) : replies[i].post # <<>>}

\* C22: get_status_context returns each resolved ancestor once, the root
\* first and the immediate parent last, and as descendants the direct
\* replies only, in the backend's order.
C22_AncestorsOldestFirst ==
    (converted # <<>> /\ converted[1].op = "context") =>
        LET chain == given[1].parents
            replies == given[1].replies
            ancestors == converted[1].ancestors
            descendants == converted[1].descendants
        IN /\ Len(ancestors) = Cardinality(ResolvedIn(chain))
           /\ \A i \in ResolvedIn(chain) :
                 ancestors[Cardinality({j \in ResolvedIn(chain) : j >= i})].id
                    = StatusId(chain[i][1].uri, "")
           /\ Len(descendants) = Cardinality(RepliesIn(replies))
           /\ \A i \in RepliesIn(replies) :
                 descendants[Cardinality({j \in RepliesIn(replies) : j <= i})].id
                    = StatusId(replies[i].post[1].uri, "")

\* a thread with two different ancestors and a reply that has a reply
C22_Witness ==
    /\ converted # <<>>
    /\ converted[1].op = "context"
    /\ Len(given[1].parents) = 2
    /\ Len(converted[1].ancestors) = 2
    /\ converted[1].ancestors[1].id # converted[1].ancestors[2].id
    /\ \E i \in 1..Len(given[1].replies) : given[1].replies[i].replies # <<>>
    /\ Len(converted[1].descendants) = Len(given[1].replies)

\* C23: the reply reference for a reply to R has R as parent and as root the
\* topmost resolved ancestor of R (R itself when it has none); a chain whose
\* last link did not resolve still gives a reference, rooted at the last
\* ancestor that did.
C23_ReplyReference ==
    (converted # <<>> /\ converted[1].op = "reply_ref"
     /\ given[1].post # <<>>) =>
        LET chain == given[1].parents
            R == given[1].post[1]
            ref == converted[1].ref
        IN /\ ref # <<>>
           /\ ref[1].parent = [uri |-> R.uri, cid |-> R.cid]
           /\ ResolvedIn(chain) = {} =>
                 ref[1].root = [uri |-> R.uri, cid |-> R.cid]
           /\ ResolvedIn(chain) # {} =>
                 \E i \in ResolvedIn(chain) :
                    /\ \A j \in ResolvedIn(chain) : j <= i
                    /\ ref[1].root = [uri |-> chain[i][1].uri,
                                      cid |-> chain[i][1].cid]

\* the chain of R ends in a link that did not resolve; the root is the
\* ancestor below it, a post other than R
C23_Witness ==
    /\ converted # <<>>
    /\ converted[1].op = "reply_ref"
    /\ Len(given[1].parents) >= 2
    /\ given[1].parents[Len(given[1].parents)] = <<>>
    /\ converted[1].ref # <<>>
    /\ converted[1].ref[1].root # converted[1].ref[1].parent


----------------------------------------------------------------------------
(* Properties of the conversion of a post *)

\* media is what a media embed (<<>> for none) of images or video stands
\* for: one image item per image in order, or one video item
MediaOfKind(embed, media) ==
    /\ embed = <<>> => media = <<>>
    /\ (embed # <<>> /\ embed[1].type = "images") =>
          /\ Len(media) = Len(embed[1].images)
          /\ \A i \in 1..Len(media) :
                media[i].type = "image" /\ media[i].url = embed[1].images[i]
    /\ (embed # <<>> /\ embed[1].type = "video") =>
          Len(media) = 1 /\ media[1].type = "video"

\* C24 (as claimed): the media of a converted post follow the embed's type:
\* one item per image, one video item, for a record-with-media composite the
\* media of its inner media embed, and none for a quoted record or no embed.
C24_EmbedDispatch ==
    \A k \in 1..Len(converted) :
        given # <<>> =>
            LET embed == given[1].embed
                media == converted[k].media_attachments
            IN /\ (embed = <<>> \/ embed[1].type \in {"images", "video"}) =>
                     MediaOfKind(embed, media)
               /\ (embed # <<>> /\ embed[1].type = "record") => media = <<>>
               /\ (embed # <<>> /\ embed[1].type = "recordWithMedia") =>
                     MediaOfKind(embed[1].media, media)


\* the values a list holds
Values(list) == {list[i] : i \in 1..Len(list)}

\* C25 (as claimed): the converted status exposes one combined content-warning
\* list that holds every server label and every non-empty self-label value of
\* the post.
C25_CombinedLabelsExposed ==
    (given # <<>> /\ converted # <<>>) =>
        LET st == converted[1]
            exposed == Values(st.spoiler_text)
                       \cup (IF st.platform_data = <<>> THEN {}
                             ELSE Values(st.platform_data[1].labels))
        IN (Values(given[1].labels) \cup Values(given[1].self_labels)) \ {""}
               \subseteq exposed

\* C26 (as claimed): whatever is missing from the payload, the converted
\* status has every required field set: an id, an account, text equal to
\* content, and numeric counts.
C26_RequiredFieldsSet ==
    \A k \in 1..Len(converted) :
        /\ converted[k].id.uri \in {0, 1}
        /\ converted[k].account # <<>>
        /\ converted[k].text = converted[k].content
        /\ converted[k].favourites_count \in Nat
        /\ converted[k].boosts_count \in Nat
        /\ converted[k].replies_count \in Nat

\* the fields of a converted status other than the payload it keeps
Fields(st) == [f \in DOMAIN st \ {"platform_data"} |-> st[f]]

\* C27 (as claimed): converting leaves the payload, its labels list included,
\* as it was, and converting the same payload twice gives equal results.
C27_ConversionPure ==
    [][ConvertPost =>
          /\ given' = given
          /\ \A k \in 1..Len(converted) :
                Fields(converted'[Len(converted')]) = Fields(converted[k])]_vars


----------------------------------------------------------------------------
(* Properties of the stream's failures and deletions *)

\* C28: a disconnect is spoken to the user, and neither on_abort nor
\* handle_heartbeat changes a timeline buffer, a current index, the cursor
\* map or the user cache.
C28_AbortKeepsState ==
    [][((\E err \in StreamErrors : OnAbort(err)) \/ HandleHeartbeat) =>
          /\ timelines' = timelines
          /\ cursors' = cursors
          /\ users' = users /\ unknown_users' = unknown_users
          /\ (event'.handler = "on_abort" => event'.spoken # <<>>)]_vars

\* the stream is aborted while a buffer holds entries and a selection
C28_Witness ==
    /\ event.handler = "on_abort"
    /\ \E t \in 1..Len(timelines) :
          Len(timelines[t].statuses) > 1 /\ timelines[t].index > 0


\* C29 (as claimed): when the adapter's favourite, unfavourite or boost call
\* reports failure, the status's favourited flag and the counters
\* favourites_sent and boosts_sent stay as they were.
C29_OnlyConfirmedActions ==
    [][(Boost(FALSE) \/ Favourite(FALSE)) =>
          /\ given'[1].favourited = given[1].favourited
          /\ prefs' = prefs]_vars


\* C30 (as claimed): once the deletion of status S has been processed, no
\* buffer holds an entry that stands for S: none with id S, and no mention
\* entry whose underlying status is S.
C30_DeletedEverywhere ==
    \A status_id \in deleted :
        \A t \in 1..Len(timelines) :
            \A i \in 1..Len(timelines[t].statuses) :
                LET entry == timelines[t].statuses[i]
                IN entry.kind = "status" =>
                      /\ entry.id # status_id
                      /\ entry.original_status_id # status_id


----------------------------------------------------------------------------
(* Properties of deletions and edits under equal ids *)

\* the entries of a buffer that do not stand for status status_id: the
\* notifications, and the statuses whose underlying status is another one
OtherEntries(tl, status_id) ==
    LET Other(entry) == ~(entry.kind = "status" /\ entry.sid = status_id)
    IN SelectSeq(tl.statuses, Other)

\* C31 (as claimed): a deletion or an edit of status S touches only entries
\* that stand for S; a notification, or a mention entry keyed by a
\* notification id, that carries an equal id is neither removed nor replaced.
C31_OnlyEntriesOfStatus ==
    [][\A status_id \in StatusIds :
          (\/ OnDeleteEvent(status_id)
           \/ \E status \in EditedStatuses :
                 status.id = status_id /\ OnStatusUpdateEvent(status)) =>
             \A t \in 1..Len(timelines) :
                 OtherEntries(timelines'[t], status_id)
                     = OtherEntries(timelines[t], status_id)]_vars


\* C32: an edit replaces the entry with the status's id where it stands: in
\* every buffer the length, the selection and all other entries stay as they
\* were, the edited status sits at the position its id had, and a buffer
\* without that id is unchanged.
C32_EditInPlace ==
    [][\A status \in EditedStatuses :
          OnStatusUpdateEvent(status) =>
             \A t \in 1..Len(timelines) :
                LET old == timelines[t].statuses
                    new == timelines'[t].statuses
                IN /\ Len(new) = Len(old)
                   /\ timelines'[t].index = timelines[t].index
                   /\ \A i \in 1..Len(old) :
                         IF old[i].id = status.id
                         THEN new[i] = status
                         ELSE new[i] = old[i]
                   /\ (\A i \in 1..Len(old) : old[i].id # status.id) =>
                         timelines'[t] = timelines[t]]_vars

\* an edited status stands behind a newer entry of its buffer
C32_Witness ==
    \E t \in 1..Len(timelines) :
        \E i \in 2..Len(timelines[t].statuses) :
            /\ timelines[t].statuses[i].edited
            /\ ~timelines[t].statuses[1].edited


----------------------------------------------------------------------------
(* Properties of routing *)

\* how many entries of a buffer carry the id
Occurrences(tl, id) ==
    Cardinality({i \in 1..Len(tl.statuses) : tl.statuses[i].id = id})

C40_NotificationKeepsStatusId ==
    \A t \in 1..Len(timelines) :
        \A i \in 1..Len(timelines[t].statuses) :
            LET entry == timelines[t].statuses[i]
            IN (entry.kind = "notification" /\ entry.sid # 0) =>
                  entry.status_id = entry.sid


----------------------------------------------------------------------------
(* Properties of the cache under timeline calls and the background load *)

\* the accounts add_users_from_status finds on the statuses of a page
AuthorsOf(page) ==
    UNION {{page[k].account, page[k].reblog, page[k].quote} :
              k \in 1..Len(page)} \ {NoUser}

C36_LoadKeepsAddedUsers ==
    [][LoadAsync =>
          \/ \A i \in 1..Len(users) : HasId(users', users[i].id)
          \/ Len(users') = MAX_CACHE_SIZE]_vars


\* C37: whatever calls were made, no two cached users have the same id, and
\* a lookup_by_id that hit returned the one cached user with the id asked
\* for.
C37_UniqueIds ==
    /\ \A id \in UserIds : CountId(users, id) <= 1
    /\ (lastOp.op = "lookup_by_id" /\ lastOp.hit) =>
          /\ Cardinality({i \in 1..Len(users) : users[i] = lastOp.result}) = 1
          /\ \A i \in 1..Len(users) :
                users[i].id = lastOp.result.id => users[i] = lastOp.result

\* account 1 was added twice, in two snapshots, and then looked up in a
\* full cache: the later snapshot is the one found
C37_Witness ==
    /\ lastOp.op = "lookup_by_id" /\ lastOp.hit
    /\ lastOp.result = User(1, 2)
    /\ Len(users) = MAX_CACHE_SIZE
    /\ users[1] # User(1, 2)


----------------------------------------------------------------------------
(* Properties of failed timeline calls *)

\* C35: a timeline call that fails leaves the whole cursor map as it was, so
\* the cursor of its key is still the one of the last call that succeeded
\* and a continuation would send that one again.
C35_FailureKeepsCursors ==
    [][\A c \in Callers :
          Fail(c) =>
             /\ cursors' = cursors
             /\ LET key == ReadKey(calls[c].method, calls[c].arg)
                IN CursorToSend(cursors', key, None, TRUE)
                      = CursorToSend(cursors, key, None, TRUE)]_vars

\* a continuation failed, reported, with a cursor stored for its key
C35_Witness ==
    \E c \in Callers :
        /\ calls[c].pc = "done" /\ calls[c].result = <<"empty">>
        /\ calls[c].max_id /\ calls[c].cursor = None
        /\ calls[c].sent # None
        /\ cursors[TimelineKey(calls[c].method, calls[c].arg)] = calls[c].sent


----------------------------------------------------------------------------
(* Properties of replies and of the ancestor walks *)

\* C38 (as claimed): a post submitted with a reply_to_id reaches send_post
\* only with a reply reference, and never as a top-level post.
C38_ReplyNeverTopLevel ==
    (converted # <<>> /\ converted[1].op = "send_post") =>
        converted[1].ref # <<>>


\* C39: an ancestor walk, once begun, comes to its end; it visits the links
\* of the chain one by one, each once, in as many steps as the chain is long,
\* and ends with what the whole chain gives.
C39_WalkTerminates ==
    /\ [](converted # <<>> =>
            /\ converted[1].steps + Len(converted[1].parent)
                  = Len(given[1].parents)
            /\ (converted[1].done /\ converted[1].op = "context") =>
                  converted[1].ancestors = WalkAncestors(given[1].parents, <<>>))
    /\ (converted # <<>>) ~> (converted # <<>> /\ converted[1].done)

\* a walk over a chain of the greatest length, with a link that could not be
\* resolved, has ended
C39_Witness ==
    /\ converted # <<>> /\ converted[1].done
    /\ converted[1].steps = MaxThread
    /\ \E i \in 1..Len(given[1].parents) : given[1].parents[i] = <<>>

====
